---- MODULE Spec2Model ----
(***************************************************************************)
(* Retry/backoff utilities (app/utils/retry.py) and the agent call layer   *)
(* (app/agents/base.py) of grounded-cv, as a state machine.                *)
(*                                                                         *)
(* One logical operation runs at a time (op, pc).  Every await of the      *)
(* source is a suspension point and separates two actions; the outcome of  *)
(* an awaited remote operation (value, exception, external cancellation)   *)
(* is chosen by the environment when the await completes.                  *)
(* Only warning and error log records are modelled; debug records are not. *)
(***************************************************************************)
EXTENDS Integers, Sequences, FiniteSets

(* ------------------------------ bounds -------------------------------- *)

\* largest max_attempts of the configurations explored
MaxAttempts == 3
\* largest number of items one producer yields / messages one query emits
MaxItems == 2
\* largest number of ClaudeSDKClient objects constructed on one agent
MaxHandles == 3

(* ------------------------- Python exceptions -------------------------- *)

\* None, for variables that hold an exception or None
None == [type |-> "None"]

\* the direct base class of each exception class used here
ParentClass(t) ==
  CASE t = "ConnectionError" -> "OSError"
    [] t = "TimeoutError" -> "OSError"
    [] t = "OSError" -> "Exception"
    [] t = "ValueError" -> "Exception"
    [] t = "RuntimeError" -> "Exception"
    [] t = "StopAsyncIteration" -> "Exception"
    [] t = "AgentConnectionError" -> "AgentError"
    [] t = "AgentQueryError" -> "AgentError"
    [] t = "AgentError" -> "Exception"
    [] t = "Exception" -> "BaseException"
    [] t = "CancelledError" -> "BaseException"
    [] t = "GeneratorExit" -> "BaseException"
    [] OTHER -> "object"

RECURSIVE IsSubclass(_, _)
IsSubclass(t, u) ==
  IF t = u THEN TRUE
  ELSE IF t = "object" \/ t = "BaseException" THEN FALSE
  ELSE IsSubclass(ParentClass(t), u)

\* `except types as e` matches e
Matches(e, types) == \E u \in types : IsSubclass(e.type, u)

\* an exception object raised by the n-th underlying invocation
Raised(t, n) == [type |-> t, src |-> n]

\* `raise T(...) from e`
RaiseFrom(t, e) == [type |-> t, cause |-> e]

\* exception classes the environment raises from an awaited operation;
\* CancelledError is an external cancellation delivered at the await
EnvExceptions == {"ConnectionError", "TimeoutError", "OSError", "ValueError", "CancelledError"}

\* exception classes the (synchronous) call of a generator factory raises
FactoryExceptions == {"ConnectionError", "ValueError"}

\* exception classes query(), connect() and the session channel raise
QueryExceptions == {"ConnectionError", "TimeoutError", "ValueError", "CancelledError"}

\* retryable_exceptions tuples passed by callers of the utilities
RetryableSets == {{"ConnectionError"}, {"ConnectionError", "TimeoutError"}}

\* values an operation returns / items a producer yields
Values == {"a", "b"}

(* ---------------------------- RetryConfig ----------------------------- *)

\* delays are held in units of 1/JitterDen second so that the jitter factor
\* 0.5 + random.random() in [0.5, 1.5) is a whole number of units
JitterDen == 4
\* (0.5 + random.random()) * JitterDen as the retry loops are explored with it:
\* one draw, factor 1.25; calculate_delay_call draws from all of JitterRange
JitterDraws == {5}

RECURSIVE Pow(_, _)
Pow(b, n) == IF n = 0 THEN 1 ELSE b * Pow(b, n - 1)

Min(a, b) == IF a <= b THEN a ELSE b

\* variant: max_attempts = 0 is accepted
__post_init___lenient(c) ==
  /\ ~(c.max_attempts < 0)
  /\ ~(c.base_delay < 0)
  /\ ~(c.max_delay < 0)
  /\ ~(c.exponential_base < 1)

\* RetryConfig.__post_init__: the constructor raises ValueError unless this holds
__post_init__(c) ==
  /\ ~(c.max_attempts < 1)
  /\ ~(c.base_delay < 0)
  /\ ~(c.max_delay < 0)
  /\ ~(c.exponential_base < 1)

\* variant: the cap is applied before the jitter factor
calculate_delay_cap_first(c, n, f) ==
  LET capped == Min(c.base_delay * Pow(c.exponential_base, n), c.max_delay)
  IN IF c.jitter THEN capped * f ELSE capped * JitterDen

\* RetryConfig.calculate_delay(attempt); f is the jitter factor drawn
calculate_delay(c, n, f) ==
  LET delay == c.base_delay * Pow(c.exponential_base, n) * JitterDen
      jittered == IF c.jitter THEN c.base_delay * Pow(c.exponential_base, n) * f ELSE delay
  IN Min(jittered, c.max_delay * JitterDen)

\* factors random.random() can contribute under configuration c
Draws(c) == IF c.jitter THEN JitterDraws ELSE {JitterDen}

\* every value (0.5 + random.random()) * JitterDen takes on the grid: [0.5, 1.5)
JitterRange == (JitterDen \div 2)..(JitterDen + JitterDen \div 2 - 1)

\* arguments RetryConfig(...) is constructed with, valid and invalid
ConfigArgs ==
  [max_attempts : 0..MaxAttempts, base_delay : -1..1, max_delay : {-1, 0, 3},
   exponential_base : 0..2, jitter : BOOLEAN]

\* the configurations explored (all pass __post_init__)
Configs ==
  {c \in [max_attempts : 1..MaxAttempts, base_delay : {1}, max_delay : {3},
          exponential_base : {2}, jitter : BOOLEAN] : __post_init__(c)}

(* ------------------------------- state -------------------------------- *)

VARIABLES
  op,              \* the operation in progress, "idle" when none
  pc,              \* its position: the await it is suspended at, or "done"
  config,          \* the RetryConfig in force
  retryable,       \* retryable_exceptions
  attempt,         \* loop variable of `for attempt in range(max_attempts)`
  last_exception,  \* local last_exception
  calls,           \* history: outcome of each underlying invocation, in order
  waits,           \* history: delay of each asyncio.sleep started
  logs,            \* history: warning/error records emitted
  result,          \* how the operation ended, [kind |-> "none"] while running
  gen,             \* local gen: index into producers, 0 for None
  first_yielded,   \* local first_yielded
  producers,       \* every producer the factory created, in order
  delivered,       \* items the consumer has received from the wrapper
  after,           \* what follows the finally block once it has run
  msgs,            \* messages the current query() / receive_response() has emitted
  blocks,          \* content blocks of the current message not yet looked at
  response_text,   \* local response_text, as the sequence of fragments concatenated
  metadata,        \* local metadata
  _client,         \* self._client: index into handles, 0 for None
  handles,         \* every ClaudeSDKClient constructed, in order
  sends,           \* handles the prompt of the current call was sent to, in order
  entry_client,    \* history: self._client when the current call began
  exc_val          \* argument exc_val of __aexit__

retry_vars == <<attempt, last_exception, calls, waits, logs, result>>
gen_vars == <<gen, first_yielded, producers, delivered, after>>
call_vars == <<msgs, blocks, response_text, metadata>>
session_vars == <<_client, handles>>
turn_vars == <<sends, entry_client, exc_val>>
vars == <<op, pc, config, retryable, retry_vars, gen_vars, call_vars, session_vars, turn_vars>>

\* the locals and histories of a call that begins
Fresh ==
  /\ attempt' = 0
  /\ last_exception' = None
  /\ calls' = <<>> /\ waits' = <<>> /\ logs' = <<>>
  /\ result' = [kind |-> "none"]
  /\ gen' = 0 /\ first_yielded' = FALSE
  /\ producers' = <<>> /\ delivered' = <<>>
  /\ after' = [kind |-> "none"]
  /\ msgs' = <<>> /\ blocks' = <<>>
  /\ response_text' = <<>> /\ metadata' = None
  /\ sends' = <<>>
  /\ entry_client' = _client
  /\ exc_val' = None

NoResult == [kind |-> "none"]
Return(v) == [kind |-> "return", value |-> v]
Raise(e) == [kind |-> "raise", exc |-> e]

Idle == pc \in {"idle", "done"}

\* log.warning(f"Attempt {attempt + 1}/{max_attempts} failed: ... Retrying in {delay}s")
RetryRecord(a, e, d) == [level |-> "warning", msg |-> "retry", attempt |-> a + 1, exc |-> e.type, delay |-> d]

\* variant: the loop goes on to its next iteration after the cancellation
sleep_cancelled_pc_resumes(o) ==
  IF o \in {"retry_async_generator", "_stream_claude"} THEN "finally"
  ELSE IF o = "retry_on_transient_error" THEN "func" ELSE "loop"

\* where control goes when CancelledError leaves `await asyncio.sleep(delay)`:
\* no except clause of the loops matches it, so it leaves the function; in
\* retry_async_generator the sleep is inside the try, so the finally block runs first
sleep_cancelled_pc(o) ==
  IF o \in {"retry_async_generator", "_stream_claude"} THEN "finally" ELSE "done"

(* ------------------------ RetryConfig calls --------------------------- *)

\* RetryConfig(**c): the dataclass __init__ stores the fields and runs
\* __post_init__, which raises ValueError or leaves the new object
RetryConfig ==
  /\ Idle
  /\ op' = "RetryConfig" /\ pc' = "done"
  /\ \E c \in ConfigArgs :
       /\ calls' = <<c>>
       /\ IF __post_init__(c)
          THEN config' = c /\ result' = Return(c)
          ELSE config' = config /\ result' = Raise(Raised("ValueError", 0))
  /\ attempt' = 0 /\ last_exception' = None
  /\ waits' = <<>> /\ logs' = <<>>
  /\ gen' = 0 /\ first_yielded' = FALSE
  /\ producers' = <<>> /\ delivered' = <<>>
  /\ after' = NoResult
  /\ msgs' = <<>> /\ blocks' = <<>>
  /\ response_text' = <<>> /\ metadata' = None
  /\ sends' = <<>> /\ entry_client' = _client /\ exc_val' = None
  /\ UNCHANGED <<retryable, session_vars>>

\* config.calculate_delay(n) is called; random.random() is drawn when jitter is on
calculate_delay_call ==
  /\ Idle
  /\ op' = "calculate_delay" /\ pc' = "done"
  /\ \E n \in 0..MaxAttempts :
       \E f \in (IF config.jitter THEN JitterRange ELSE {JitterDen}) :
         /\ attempt' = n
         /\ result' = Return(calculate_delay(config, n, f))
  /\ last_exception' = None
  /\ calls' = <<>> /\ waits' = <<>> /\ logs' = <<>>
  /\ gen' = 0 /\ first_yielded' = FALSE
  /\ producers' = <<>> /\ delivered' = <<>>
  /\ after' = NoResult
  /\ msgs' = <<>> /\ blocks' = <<>>
  /\ response_text' = <<>> /\ metadata' = None
  /\ sends' = <<>> /\ entry_client' = _client /\ exc_val' = None
  /\ UNCHANGED <<config, retryable, session_vars>>

\* variant: the retry is not logged
log_retry_silent(lg, a, e, d) == lg

\* the log after `log.warning(...)` in the `if attempt < config.max_attempts - 1`
\* branch of the utilities
log_retry(lg, a, e, d) == Append(lg, RetryRecord(a, e, d))

(* --------------- retry_on_transient_error: wrapper -------------------- *)

\* `if attempt < config.max_attempts - 1`
\* variant: no attempt is ever followed by another one
HasAttemptsLeft_never(a, c) == FALSE

\* variant: a wait follows the last attempt too
HasAttemptsLeft_always(a, c) == TRUE

HasAttemptsLeft(a, c) == a < c.max_attempts - 1

\* variant: the exhaustion error is a new exception wrapping the last one
wrapper_after_loop_wrapped(le) ==
  IF le # None THEN Raise(RaiseFrom("RuntimeError", le)) ELSE Raise(Raised("RuntimeError", 0))

\* code after the for loop of wrapper
wrapper_after_loop(le) ==
  IF le # None THEN Raise(le) ELSE Raise(Raised("RuntimeError", 0))

\* the for loop takes its next value, or ends and the code after it runs
wrapper_next_iteration(le) ==
  IF attempt + 1 < config.max_attempts
  THEN /\ attempt' = attempt + 1
       /\ pc' = "func"
       /\ result' = result
  ELSE /\ attempt' = attempt
       /\ pc' = "done"
       /\ result' = wrapper_after_loop(le)

\* the decorated function is called: the loop starts and awaits func
wrapper_call ==
  /\ Idle
  /\ op' = "retry_on_transient_error"
  /\ \E r \in RetryableSets : retryable' = r
  /\ pc' = "func"
  /\ Fresh
  /\ UNCHANGED <<config, session_vars>>

\* variant: the awaited value is not returned and the loop goes on
wrapper_on_return_dropped(v) ==
  /\ wrapper_next_iteration(last_exception)
  /\ UNCHANGED <<last_exception, waits, logs>>

\* `return await func(...)` returned v
wrapper_on_return(v) ==
  /\ pc' = "done"
  /\ result' = Return(v)
  /\ UNCHANGED <<attempt, last_exception, waits, logs>>

\* `except retryable_exceptions as e`
wrapper_on_retryable(e) ==
  /\ last_exception' = e
  /\ IF HasAttemptsLeft(attempt, config)
     THEN \E f \in Draws(config) :
            LET delay == calculate_delay(config, attempt, f) IN
            /\ logs' = log_retry(logs, attempt, e, delay)
            /\ waits' = Append(waits, delay)
            /\ pc' = "sleep"
            /\ UNCHANGED <<attempt, result>>
     ELSE /\ wrapper_next_iteration(e)
          /\ UNCHANGED <<waits, logs>>

\* variant: the except clause catches every exception
wrapper_on_other_caught(e) == wrapper_on_retryable(e)

\* an exception no except clause matches leaves wrapper
wrapper_on_other(e) ==
  /\ pc' = "done"
  /\ result' = Raise(e)
  /\ UNCHANGED <<attempt, last_exception, waits, logs>>

\* `await func(...)` completes
wrapper_attempt ==
  /\ op = "retry_on_transient_error" /\ pc = "func"
  /\ \/ \E v \in Values :
          /\ calls' = Append(calls, Return(v))
          /\ wrapper_on_return(v)
     \/ \E t \in EnvExceptions :
          LET e == Raised(t, Len(calls) + 1) IN
          /\ calls' = Append(calls, Raise(e))
          /\ IF Matches(e, retryable)
             THEN wrapper_on_retryable(e)
             ELSE wrapper_on_other(e)
  /\ UNCHANGED <<op, config, retryable, gen_vars, call_vars, session_vars, turn_vars>>

\* `await asyncio.sleep(delay)` completes
wrapper_sleep ==
  /\ op = "retry_on_transient_error" /\ pc = "sleep"
  /\ wrapper_next_iteration(last_exception)
  /\ UNCHANGED <<op, config, retryable, last_exception, calls, waits, logs, gen_vars, call_vars, session_vars, turn_vars>>

\* the task is cancelled while suspended in asyncio.sleep
wrapper_sleep_cancelled ==
  /\ op = "retry_on_transient_error" /\ pc = "sleep"
  /\ pc' = sleep_cancelled_pc(op)
  /\ result' = Raise(Raised("CancelledError", 0))
  /\ UNCHANGED <<op, config, retryable, attempt, last_exception, calls, waits, logs, gen_vars, call_vars, session_vars, turn_vars>>

(* ----------------------- retry_async_generator ------------------------ *)

Stop == [kind |-> "stop"]
Continue == [kind |-> "next"]

\* what `await gen.aclose()` can end with ("None": it returns; CancelledError: the
\* task is cancelled while suspended there, or the producer's cleanup raises it)
AcloseOutcomes == {"None", "RuntimeError", "ValueError", "CancelledError"}

\* a producer just created by the factory; aclose: whether it has that attribute
\* out: what it has yielded; end: how its iteration ended; closed: aclose() calls made;
\* close_exc: the exception class the last aclose() raised, "None" if it returned
NewProducer(has_aclose) ==
  [out |-> <<>>, end |-> NoResult, aclose |-> has_aclose, closed |-> 0, close_exc |-> "None"]

\* the factory creates objects of one class: all its producers have aclose or none has
FactoryClasses(ps) == IF ps = <<>> THEN BOOLEAN ELSE {ps[1].aclose}

\* log.warning(f"Unexpected error during generator cleanup: {cleanup_error}")
CleanupRecord(t) == [level |-> "warning", msg |-> "cleanup", exc |-> t]

\* variant: an item is yielded again after the flag is set
gen_yield_twice(d, item) == d \o <<item, item>>

\* `yield item`: the consumer receives item
gen_yield(d, item) == Append(d, item)

\* variant: the flag is not consulted
gen_midstream_ignored(fy) == FALSE

\* `if first_yielded: raise`
gen_midstream(fy) == fy

\* retry_async_generator(...) is called: the generator object exists, its body has
\* not started
retry_async_generator ==
  /\ Idle
  /\ op' = "retry_async_generator"
  /\ \E r \in RetryableSets : retryable' = r
  /\ pc' = "start"
  /\ Fresh
  /\ UNCHANGED <<config, session_vars>>

\* an exception e leaves the try block; fy is first_yielded at that point and lg
\* the log including what the producer wrote before raising.
\* Decides last_exception, the retry record and wait, and what follows finally.
gen_except(e, fy, lg) ==
  IF Matches(e, retryable)
  THEN IF gen_midstream(fy)
       THEN /\ pc' = "finally"
            /\ after' = Raise(e)
            /\ logs' = lg
            /\ UNCHANGED <<last_exception, waits>>
       ELSE /\ last_exception' = e
            /\ after' = Continue
            /\ IF HasAttemptsLeft(attempt, config)
               THEN \E f \in Draws(config) :
                      LET delay == calculate_delay(config, attempt, f) IN
                      /\ logs' = log_retry(lg, attempt, e, delay)
                      /\ waits' = Append(waits, delay)
                      /\ pc' = "sleep"
               ELSE /\ pc' = "finally"
                    /\ logs' = lg
                    /\ UNCHANGED waits
  ELSE /\ pc' = "finally"
       /\ after' = Raise(e)
       /\ logs' = lg
       /\ UNCHANGED <<last_exception, waits>>

\* the operations that run the body of retry_async_generator
GenOps == {"retry_async_generator", "_stream_claude"}

\* the texts of the TextBlocks of a message content, in order
TextsOf(content) ==
  LET texts == SelectSeq(content, LAMBDA b : b.kind = "text")
  IN [i \in 1..Len(texts) |-> texts[i].text]

\* index of the first TextBlock of content, 0 when it has none
FirstText(content) ==
  IF \E i \in 1..Len(content) : content[i].kind = "text"
  THEN CHOOSE i \in 1..Len(content) :
         /\ content[i].kind = "text"
         /\ \A j \in 1..(i - 1) : content[j].kind # "text"
  ELSE 0

\* the consumer awaits __anext__(): the body starts, or resumes after `yield item`.
\* A _create_stream producer resumed inside `for block in message.content` yields
\* the next text block without awaiting anything.
consumer_anext ==
  /\ op \in GenOps
  /\ \/ /\ pc = "start" /\ pc' = "factory"
        /\ UNCHANGED <<producers, delivered, blocks>>
     \/ /\ pc = "yielded"
        /\ IF FirstText(blocks) # 0
           THEN /\ producers' = [producers EXCEPT ![gen].out = Append(@, blocks[FirstText(blocks)].text)]
                /\ delivered' = gen_yield(delivered, blocks[FirstText(blocks)].text)
                /\ blocks' = SubSeq(blocks, FirstText(blocks) + 1, Len(blocks))
                /\ pc' = "yielded"
           ELSE /\ pc' = "anext"
                /\ blocks' = <<>>
                /\ UNCHANGED <<producers, delivered>>
  /\ UNCHANGED <<op, config, retryable, retry_vars, gen, first_yielded, after>>
  /\ UNCHANGED <<msgs, response_text, metadata, session_vars, turn_vars>>

\* the consumer awaits aclose(): GeneratorExit is raised at `yield item`; a generator
\* that has not started is closed without running
consumer_aclose ==
  /\ op = "retry_async_generator"
  /\ \/ /\ pc = "start"
        /\ pc' = "done"
        /\ result' = [kind |-> "closed"]
        /\ UNCHANGED <<last_exception, waits, logs, after>>
     \/ /\ pc = "yielded"
        /\ gen_except(Raised("GeneratorExit", 0), first_yielded, logs)
        /\ UNCHANGED result
  /\ UNCHANGED <<op, config, retryable, attempt, calls, gen, first_yielded, producers, delivered>>
  /\ UNCHANGED <<call_vars, session_vars, turn_vars>>

\* top of the loop body: gen = None; first_yielded = False; gen = generator_factory()
gen_factory ==
  /\ op = "retry_async_generator" /\ pc = "factory"
  /\ first_yielded' = FALSE
  /\ \/ \E has_aclose \in FactoryClasses(producers) :
          /\ calls' = Append(calls, [kind |-> "created"])
          /\ producers' = Append(producers, NewProducer(has_aclose))
          /\ gen' = Len(producers) + 1
          /\ pc' = "anext"
          /\ UNCHANGED <<last_exception, waits, logs, after>>
     \/ \E t \in FactoryExceptions :
          LET e == Raised(t, Len(calls) + 1) IN
          /\ calls' = Append(calls, Raise(e))
          /\ gen' = 0
          /\ gen_except(e, FALSE, logs)
          /\ UNCHANGED producers
  /\ UNCHANGED <<op, config, retryable, attempt, result, delivered>>
  /\ UNCHANGED <<call_vars, session_vars, turn_vars>>

\* `async for item in gen`: the await of gen.__anext__() completes
gen_anext ==
  /\ op = "retry_async_generator" /\ pc = "anext"
  /\ \/ \E v \in Values :
          /\ Len(producers[gen].out) < MaxItems
          /\ producers' = [producers EXCEPT ![gen].out = Append(@, v)]
          /\ first_yielded' = TRUE
          /\ delivered' = gen_yield(delivered, v)
          /\ pc' = "yielded"
          /\ UNCHANGED <<last_exception, waits, logs, after>>
     \/ /\ producers' = [producers EXCEPT ![gen].end = Stop]
        /\ pc' = "finally"
        /\ after' = Stop
        /\ UNCHANGED <<last_exception, waits, logs, first_yielded, delivered>>
     \/ \E t \in EnvExceptions :
          LET e == Raised(t, Len(calls)) IN
          /\ producers' = [producers EXCEPT ![gen].end = Raise(e)]
          /\ gen_except(e, first_yielded, logs)
          /\ UNCHANGED <<first_yielded, delivered>>
  /\ UNCHANGED <<op, config, retryable, attempt, calls, result, gen>>
  /\ UNCHANGED <<call_vars, session_vars, turn_vars>>

\* `await asyncio.sleep(delay)` completes; the finally block is next
gen_sleep ==
  /\ op \in GenOps /\ pc = "sleep"
  /\ pc' = "finally"
  /\ UNCHANGED <<op, config, retryable, retry_vars, gen_vars>>
  /\ UNCHANGED <<call_vars, session_vars, turn_vars>>

\* the task is cancelled while suspended in asyncio.sleep
gen_sleep_cancelled ==
  /\ op \in GenOps /\ pc = "sleep"
  /\ pc' = sleep_cancelled_pc(op)
  /\ after' = Raise(Raised("CancelledError", 0))
  /\ UNCHANGED <<op, config, retryable, retry_vars, gen, first_yielded, producers, delivered>>
  /\ UNCHANGED <<call_vars, session_vars, turn_vars>>

\* variant: the generator ends without raising after the last attempt
gen_after_loop_silent(le) == Stop

\* code after the for loop of retry_async_generator
gen_after_loop(le) == IF le # None THEN Raise(le) ELSE Stop

\* exceptions aclose() of the producers of operation o can end with: a
\* _create_stream generator re-raises the GeneratorExit it is closed with
AcloseOutcomesOf(o) == IF o = "_stream_claude" THEN {"None"} ELSE AcloseOutcomes

\* variant: the finally block closes nothing
gen_closes_never(g, ps) == FALSE

\* `if gen is not None and hasattr(gen, "aclose")`
gen_closes(g, ps) == g # 0 /\ ps[g].aclose

\* variant: an exception raised by aclose() replaces what the wrapper was doing
after_close_propagates(a, t) == IF t = "None" THEN a ELSE Raise(Raised(t, 0))

\* aclose() returned, or `except (GeneratorExit, StopAsyncIteration, RuntimeError): pass`
close_passed(t) ==
  t = "None" \/ Matches([type |-> t], {"GeneratorExit", "StopAsyncIteration", "RuntimeError"})

\* `except Exception as cleanup_error: log.warning(...)` is the clause taken
close_logged(t) == ~close_passed(t) /\ Matches([type |-> t], {"Exception"})

\* what follows the finally block when `await gen.aclose()` ended with t: the
\* two except clauses of the inner try end without raising and what was leaving
\* the try statement continues; an exception neither clause matches
\* (CancelledError) leaves the finally block in its place
after_close(a, t) ==
  IF close_passed(t) \/ close_logged(t) THEN a ELSE Raise(Raised(t, 0))

\* the finally block, then what the try statement was leaving for.  When the
\* consumer already has its outcome (the generator is being finalized after
\* _stream_claude was closed) the outcome of the body reaches nobody.
gen_finally ==
  /\ op \in GenOps /\ pc = "finally"
  /\ \E t \in (IF gen_closes(gen, producers) THEN AcloseOutcomesOf(op) ELSE {"None"}) :
       /\ IF gen_closes(gen, producers)
          THEN /\ producers' = [producers EXCEPT ![gen].closed = @ + 1, ![gen].close_exc = t]
               /\ logs' = IF close_logged(t) THEN Append(logs, CleanupRecord(t)) ELSE logs
          ELSE UNCHANGED <<producers, logs>>
       /\ LET a == after_close(after, t) IN
          IF a = Continue
          THEN IF attempt + 1 < config.max_attempts
               THEN /\ attempt' = attempt + 1
                    /\ pc' = "factory"
                    /\ UNCHANGED result
               ELSE /\ pc' = "done"
                    /\ result' = gen_after_loop(last_exception)
                    /\ UNCHANGED attempt
          ELSE /\ pc' = "done"
               /\ result' = IF result = NoResult THEN a ELSE result
               /\ UNCHANGED attempt
  /\ UNCHANGED <<op, config, retryable, last_exception, calls, waits, gen, first_yielded, delivered, after>>
  /\ UNCHANGED <<call_vars, session_vars, turn_vars>>

(* ------------------------ the remote service --------------------------- *)

\* a value of an attribute that may also be None
Some(v) == [type |-> "value", value |-> v]

\* `x or default` for an attribute holding None or a number
OrDefault(x, default) == IF x = None \/ x.value = 0 THEN default ELSE x.value

TextBlock(t) == [kind |-> "text", text |-> t]
ToolUseBlock == [kind |-> "tool_use"]
AssistantMessage(content) == [kind |-> "assistant", content |-> content]
ResultMessage(usage, cost) ==
  [kind |-> "result", usage |-> usage, duration_ms |-> 7, total_cost_usd |-> cost, session_id |-> Some("s1")]
SystemMessage == [kind |-> "system"]

\* messages query() and receive_response() emit
Messages ==
  { AssistantMessage(<<TextBlock("a")>>),
    AssistantMessage(<<ToolUseBlock, TextBlock("b"), TextBlock("a")>>),
    AssistantMessage(<<ToolUseBlock>>),
    ResultMessage([input_tokens |-> 10, output_tokens |-> 5], Some(2)),
    ResultMessage(None, None) }

\* variant: every Exception is handled as a transport failure
Transport_any == {"Exception"}

\* (ConnectionError, TimeoutError, OSError)
Transport == {"ConnectionError", "TimeoutError", "OSError"}

\* dict.get(key, default) on a dict that may be None (`result.usage or {}`)
Get(dict, key, default) ==
  IF dict = None THEN default
  ELSE IF key \in DOMAIN dict THEN dict[key] ELSE default

\* AgentMetadata(...) with the dataclass defaults; timestamps are not modelled
AgentMetadata(tokens_in, tokens_out, latency_ms, cost_usd, session_id) ==
  [tokens_in |-> tokens_in, tokens_out |-> tokens_out, latency_ms |-> latency_ms,
   cost_usd |-> cost_usd, session_id |-> session_id]

\* AgentMetadata.from_result_message
from_result_message(m) ==
  AgentMetadata(Get(m.usage, "input_tokens", 0), Get(m.usage, "output_tokens", 0),
                m.duration_ms,
                OrDefault(m.total_cost_usd, 0),
                m.session_id)

\* variant: the fallback metadata carries usage figures
FallbackMetadata_stale == AgentMetadata(10, 5, 7, 2, None)

\* AgentMetadata(agent_name=..., model_used=..., started_at=..., completed_at=...)
FallbackMetadata == AgentMetadata(0, 0, 0, 0, None)

ErrorRecord(where) == [level |-> "error", msg |-> where]

(* ----------------------- BaseAgent._stream_claude ----------------------- *)

\* _stream_claude(...) is called: the generator object exists, its body has not started
_stream_claude ==
  /\ Idle
  /\ op' = "_stream_claude"
  /\ retryable' = {"AgentConnectionError"}
  /\ pc' = "start"
  /\ Fresh
  /\ UNCHANGED <<config, session_vars>>

\* what _create_stream raises when query() raises e inside its try block
create_stream_except(e) ==
  IF Matches(e, Transport) THEN RaiseFrom("AgentConnectionError", e)
  ELSE IF Matches(e, {"GeneratorExit"}) THEN e
  ELSE IF Matches(e, {"Exception"}) THEN RaiseFrom("AgentQueryError", e)
  ELSE e

\* the error record _create_stream writes when query() raises e
create_stream_log(e) ==
  IF Matches(e, Transport) THEN <<ErrorRecord("connection")>>
  ELSE IF Matches(e, {"GeneratorExit"}) THEN <<>>
  ELSE IF Matches(e, {"Exception"}) THEN <<ErrorRecord("unexpected")>>
  ELSE <<>>

\* top of the loop body of retry_async_generator with generator_factory =
\* _create_stream: calling an async generator function creates the producer
create_stream ==
  /\ op = "_stream_claude" /\ pc = "factory"
  /\ first_yielded' = FALSE
  /\ calls' = Append(calls, [kind |-> "created"])
  /\ producers' = Append(producers, NewProducer(TRUE))
  /\ gen' = Len(producers) + 1
  /\ msgs' = <<>> /\ blocks' = <<>>
  /\ pc' = "anext"
  /\ UNCHANGED <<op, config, retryable, attempt, last_exception, waits, logs, result, delivered, after>>
  /\ UNCHANGED <<response_text, metadata, session_vars, turn_vars>>

\* _create_stream awaits the next message of query(): a message with text yields its
\* first text block through retry_async_generator and _stream_claude to the consumer
create_stream_anext ==
  /\ op = "_stream_claude" /\ pc = "anext"
  /\ \/ \E m \in Messages :
          /\ Len(msgs) < MaxItems
          /\ msgs' = Append(msgs, m)
          /\ IF m.kind = "assistant" /\ FirstText(m.content) # 0
             THEN /\ producers' = [producers EXCEPT ![gen].out = Append(@, m.content[FirstText(m.content)].text)]
                  /\ first_yielded' = TRUE
                  /\ delivered' = gen_yield(delivered, m.content[FirstText(m.content)].text)
                  /\ blocks' = SubSeq(m.content, FirstText(m.content) + 1, Len(m.content))
                  /\ pc' = "yielded"
             ELSE /\ pc' = "anext"
                  /\ UNCHANGED <<producers, first_yielded, delivered, blocks>>
          /\ UNCHANGED <<last_exception, waits, logs, after>>
     \/ /\ producers' = [producers EXCEPT ![gen].end = Stop]
        /\ pc' = "finally"
        /\ after' = Stop
        /\ UNCHANGED <<last_exception, waits, logs, first_yielded, delivered, msgs, blocks>>
     \/ \E t \in QueryExceptions :
          LET e == create_stream_except(Raised(t, Len(calls))) IN
          /\ producers' = [producers EXCEPT ![gen].end = Raise(e)]
          /\ gen_except(e, first_yielded, logs \o create_stream_log(Raised(t, Len(calls))))
          /\ UNCHANGED <<first_yielded, delivered, msgs, blocks>>
  /\ UNCHANGED <<op, config, retryable, attempt, calls, result, gen>>
  /\ UNCHANGED <<response_text, metadata, session_vars, turn_vars>>

\* the consumer awaits aclose() of _stream_claude: GeneratorExit is raised at its
\* `yield chunk` and leaves the `async for`, which does not close the
\* retry_async_generator object it iterates; that object stays suspended at its
\* own yield until the event loop finalizes it
stream_aclose ==
  /\ op = "_stream_claude"
  /\ \/ pc = "start" /\ pc' = "done"
     \/ pc = "yielded" /\ pc' = "abandoned"
  /\ result' = [kind |-> "closed"]
  /\ UNCHANGED <<op, config, retryable, attempt, last_exception, calls, waits, logs, gen_vars>>
  /\ UNCHANGED <<call_vars, session_vars, turn_vars>>

\* the event loop's asynchronous-generator finalizer hook runs aclose() of the
\* abandoned retry_async_generator object: GeneratorExit is raised at `yield item`
asyncgen_finalizer ==
  /\ op = "_stream_claude" /\ pc = "abandoned"
  /\ gen_except(Raised("GeneratorExit", 0), first_yielded, logs)
  /\ UNCHANGED <<op, config, retryable, attempt, calls, result, gen, first_yielded, producers, delivered>>
  /\ UNCHANGED <<call_vars, session_vars, turn_vars>>

(* ------------------------ BaseAgent._call_claude ------------------------ *)

\* self.logger.warning(f"Retry {attempt + 1}/{max_attempts - 1}: ... Retrying in {delay}s")
AgentRetryRecord(a, e, d) == [level |-> "warning", msg |-> "retry", attempt |-> a + 1, exc |-> e.type, delay |-> d]

\* self.logger.warning("No ResultMessage received from SDK - using fallback metadata ...")
FallbackRecord == [level |-> "warning", msg |-> "no_result"]

\* variant: the text collected so far is kept when an attempt starts
call_claude_text_kept(text) == text

\* `response_text = ""` at the top of the loop body
call_claude_text_reset(text) == <<>>

\* variant: the metadata received so far is kept when an attempt starts
call_claude_metadata_kept(md) == md

\* `metadata: AgentMetadata | None = None` at the top of the loop body
call_claude_metadata_reset(md) == None

\* code after the for loop of _call_claude
call_claude_after_loop(le) ==
  IF le # None THEN Raise(RaiseFrom("AgentConnectionError", le))
  ELSE Raise(Raised("RuntimeError", 0))

\* variant: the last transport failure is raised as it is
blocking_exhausted_raw(e) == Raise(e)

\* `raise AgentConnectionError(...) from e` on the last attempt of _call_claude and
\* of quick_query
blocking_exhausted(e) == Raise(RaiseFrom("AgentConnectionError", e))

\* an attempt of _call_claude that ended with exception e; partial tells whether it
\* had collected both text and a ResultMessage by then
FailedAttempt(e, text, md) == [kind |-> "raise", exc |-> e, partial |-> text # <<>> /\ md # None]

\* _call_claude(prompt, ...) is called
_call_claude ==
  /\ Idle
  /\ op' = "_call_claude"
  /\ retryable' = Transport
  /\ Fresh
  /\ pc' = "loop"
  /\ UNCHANGED <<config, session_vars>>

\* `for attempt in range(max_attempts)`: the top of the loop body (started_at,
\* response_text, metadata, query(...) is called), or the code after the loop
call_claude_iteration ==
  /\ op = "_call_claude" /\ pc = "loop"
  /\ IF attempt < config.max_attempts
     THEN /\ response_text' = call_claude_text_reset(response_text)
          /\ metadata' = call_claude_metadata_reset(metadata)
          /\ msgs' = <<>>
          /\ calls' = Append(calls, [kind |-> "created"])
          /\ pc' = "query"
          /\ UNCHANGED result
     ELSE /\ result' = call_claude_after_loop(last_exception)
          /\ pc' = "done"
          /\ UNCHANGED <<response_text, metadata, msgs, calls>>
  /\ UNCHANGED <<op, config, retryable, attempt, last_exception, waits, logs, gen_vars, blocks, session_vars, turn_vars>>

\* `async for message in query(...)`: the next message arrives
call_claude_message ==
  /\ op = "_call_claude" /\ pc = "query"
  /\ Len(msgs) < MaxItems
  /\ \E m \in Messages :
       /\ msgs' = Append(msgs, m)
       /\ response_text' = IF m.kind = "assistant" THEN response_text \o TextsOf(m.content) ELSE response_text
       /\ metadata' = IF m.kind = "result" THEN from_result_message(m) ELSE metadata
  /\ UNCHANGED <<op, pc, config, retryable, retry_vars, gen_vars, blocks, session_vars, turn_vars>>

\* query() ends normally: fallback metadata if none was received, return
call_claude_return ==
  /\ op = "_call_claude" /\ pc = "query"
  /\ calls' = [calls EXCEPT ![Len(calls)] = Stop]
  /\ IF metadata = None
     THEN /\ logs' = Append(logs, FallbackRecord)
          /\ metadata' = FallbackMetadata
     ELSE UNCHANGED <<logs, metadata>>
  /\ result' = Return([text |-> response_text, metadata |-> metadata'])
  /\ pc' = "done"
  /\ UNCHANGED <<op, config, retryable, attempt, last_exception, waits, gen_vars>>
  /\ UNCHANGED <<msgs, blocks, response_text, session_vars, turn_vars>>

\* query() raises
call_claude_raise ==
  /\ op = "_call_claude" /\ pc = "query"
  /\ \E t \in QueryExceptions :
       LET e == Raised(t, Len(calls)) IN
       /\ calls' = [calls EXCEPT ![Len(calls)] = FailedAttempt(e, response_text, metadata)]
       /\ IF Matches(e, Transport)
          THEN /\ last_exception' = e
               /\ IF HasAttemptsLeft(attempt, config)
                  THEN \E f \in Draws(config) :
                         LET delay == calculate_delay(config, attempt, f) IN
                         /\ logs' = Append(logs, AgentRetryRecord(attempt, e, delay))
                         /\ waits' = Append(waits, delay)
                         /\ pc' = "sleep"
                         /\ UNCHANGED result
                  ELSE /\ logs' = Append(logs, ErrorRecord("connection"))
                       /\ result' = blocking_exhausted(e)
                       /\ pc' = "done"
                       /\ UNCHANGED waits
          ELSE IF Matches(e, {"Exception"})
          THEN /\ logs' = Append(logs, ErrorRecord("unexpected"))
               /\ result' = Raise(RaiseFrom("AgentQueryError", e))
               /\ pc' = "done"
               /\ UNCHANGED <<last_exception, waits>>
          ELSE /\ result' = Raise(e)
               /\ pc' = "done"
               /\ UNCHANGED <<last_exception, waits, logs>>
  /\ UNCHANGED <<op, config, retryable, attempt, gen_vars, call_vars, session_vars, turn_vars>>

\* `await asyncio.sleep(delay)` completes: the loop takes its next value
call_claude_sleep ==
  /\ op = "_call_claude" /\ pc = "sleep"
  /\ attempt' = attempt + 1
  /\ pc' = "loop"
  /\ UNCHANGED <<op, config, retryable, last_exception, calls, waits, logs, result>>
  /\ UNCHANGED <<gen_vars, call_vars, session_vars, turn_vars>>

\* the task is cancelled while suspended in asyncio.sleep
call_claude_sleep_cancelled ==
  /\ op = "_call_claude" /\ pc = "sleep"
  /\ result' = Raise(Raised("CancelledError", 0))
  /\ pc' = sleep_cancelled_pc(op)
  /\ UNCHANGED <<op, config, retryable, attempt, last_exception, calls, waits, logs>>
  /\ UNCHANGED <<gen_vars, call_vars, session_vars, turn_vars>>

(* ------------------------------ quick_query ----------------------------- *)

\* code after the for loop of quick_query
quick_query_after_loop(le) ==
  IF le # None THEN Raise(RaiseFrom("AgentConnectionError", le))
  ELSE Raise(Raised("RuntimeError", 0))

\* quick_query(prompt, ..., retry_config) is called
quick_query ==
  /\ Idle
  /\ op' = "quick_query"
  /\ retryable' = Transport
  /\ Fresh
  /\ pc' = "loop"
  /\ UNCHANGED <<config, session_vars>>

\* `for attempt in range(config.max_attempts)`: the top of the loop body
\* (response_text, query(...) is called), or the code after the loop
quick_query_iteration ==
  /\ op = "quick_query" /\ pc = "loop"
  /\ IF attempt < config.max_attempts
     THEN /\ response_text' = call_claude_text_reset(response_text)
          /\ msgs' = <<>>
          /\ calls' = Append(calls, [kind |-> "created"])
          /\ pc' = "query"
          /\ UNCHANGED result
     ELSE /\ result' = quick_query_after_loop(last_exception)
          /\ pc' = "done"
          /\ UNCHANGED <<response_text, msgs, calls>>
  /\ UNCHANGED <<op, config, retryable, attempt, last_exception, waits, logs, gen_vars>>
  /\ UNCHANGED <<blocks, metadata, session_vars, turn_vars>>

\* `async for message in query(...)`: the next message arrives
quick_query_message ==
  /\ op = "quick_query" /\ pc = "query"
  /\ Len(msgs) < MaxItems
  /\ \E m \in Messages :
       /\ msgs' = Append(msgs, m)
       /\ response_text' = IF m.kind = "assistant" THEN response_text \o TextsOf(m.content) ELSE response_text
  /\ UNCHANGED <<op, pc, config, retryable, retry_vars, gen_vars, blocks, metadata, session_vars, turn_vars>>

\* query() ends normally: `return response_text`
quick_query_return ==
  /\ op = "quick_query" /\ pc = "query"
  /\ calls' = [calls EXCEPT ![Len(calls)] = Stop]
  /\ result' = Return(response_text)
  /\ pc' = "done"
  /\ UNCHANGED <<op, config, retryable, attempt, last_exception, waits, logs, gen_vars>>
  /\ UNCHANGED <<call_vars, session_vars, turn_vars>>

\* query() raises
quick_query_raise ==
  /\ op = "quick_query" /\ pc = "query"
  /\ \E t \in QueryExceptions :
       LET e == Raised(t, Len(calls)) IN
       /\ calls' = [calls EXCEPT ![Len(calls)] = Raise(e)]
       /\ IF Matches(e, Transport)
          THEN /\ last_exception' = e
               /\ IF HasAttemptsLeft(attempt, config)
                  THEN \E f \in Draws(config) :
                         LET delay == calculate_delay(config, attempt, f) IN
                         /\ logs' = Append(logs, AgentRetryRecord(attempt, e, delay))
                         /\ waits' = Append(waits, delay)
                         /\ pc' = "sleep"
                         /\ UNCHANGED result
                  ELSE /\ logs' = Append(logs, ErrorRecord("connection"))
                       /\ result' = blocking_exhausted(e)
                       /\ pc' = "done"
                       /\ UNCHANGED waits
          ELSE IF Matches(e, {"Exception"})
          THEN /\ logs' = Append(logs, ErrorRecord("unexpected"))
               /\ result' = Raise(RaiseFrom("AgentQueryError", e))
               /\ pc' = "done"
               /\ UNCHANGED <<last_exception, waits>>
          ELSE /\ result' = Raise(e)
               /\ pc' = "done"
               /\ UNCHANGED <<last_exception, waits, logs>>
  /\ UNCHANGED <<op, config, retryable, attempt, gen_vars, call_vars, session_vars, turn_vars>>

\* `await asyncio.sleep(delay)` completes: the loop takes its next value
quick_query_sleep ==
  /\ op = "quick_query" /\ pc = "sleep"
  /\ attempt' = attempt + 1
  /\ pc' = "loop"
  /\ UNCHANGED <<op, config, retryable, last_exception, calls, waits, logs, result>>
  /\ UNCHANGED <<gen_vars, call_vars, session_vars, turn_vars>>

\* the task is cancelled while suspended in asyncio.sleep
quick_query_sleep_cancelled ==
  /\ op = "quick_query" /\ pc = "sleep"
  /\ result' = Raise(Raised("CancelledError", 0))
  /\ pc' = sleep_cancelled_pc(op)
  /\ UNCHANGED <<op, config, retryable, attempt, last_exception, calls, waits, logs>>
  /\ UNCHANGED <<gen_vars, call_vars, session_vars, turn_vars>>

(* --------------------- BaseAgent: conversation session ----------------- *)

\* ClaudeSDKClient(options=options): constructed, connect() not yet completed
NewHandle == [state |-> "new"]

\* variant: the handle of the failed attempt is kept
start_conversation_kept(c) == c

\* `self._client = None` in the except clauses of _start_conversation
start_conversation_discard(c) == 0

\* code after the for loop of _start_conversation: raise, or fall off the end
start_conversation_after_loop(le) ==
  IF le # None THEN Raise(RaiseFrom("AgentConnectionError", le)) ELSE Return(None)

\* _start_conversation(...) is called
_start_conversation ==
  /\ Idle
  /\ Len(handles) + config.max_attempts <= MaxHandles
  /\ op' = "_start_conversation"
  /\ retryable' = Transport
  /\ Fresh
  /\ pc' = "loop"
  /\ UNCHANGED <<config, session_vars>>

\* `for attempt in range(max_attempts)`: self._client = ClaudeSDKClient(...) and
\* connect() is awaited, or the code after the loop
start_conversation_iteration ==
  /\ op = "_start_conversation" /\ pc = "loop"
  /\ IF attempt < config.max_attempts
     THEN /\ handles' = Append(handles, NewHandle)
          /\ _client' = Len(handles) + 1
          /\ calls' = Append(calls, [kind |-> "created"])
          /\ pc' = "connect"
          /\ UNCHANGED result
     ELSE /\ result' = start_conversation_after_loop(last_exception)
          /\ pc' = "done"
          /\ UNCHANGED <<handles, _client, calls>>
  /\ UNCHANGED <<op, config, retryable, attempt, last_exception, waits, logs, gen_vars, call_vars, turn_vars>>

\* `await self._client.connect(prompt=initial_prompt)` returns
start_conversation_connected ==
  /\ op = "_start_conversation" /\ pc = "connect"
  /\ handles' = [handles EXCEPT ![_client].state = "connected"]
  /\ calls' = [calls EXCEPT ![Len(calls)] = Return(None)]
  /\ result' = Return(None)
  /\ pc' = "done"
  /\ UNCHANGED <<op, config, retryable, attempt, last_exception, waits, logs, _client>>
  /\ UNCHANGED <<gen_vars, call_vars, turn_vars>>

\* `await self._client.connect(prompt=initial_prompt)` raises
start_conversation_raise ==
  /\ op = "_start_conversation" /\ pc = "connect"
  /\ \E t \in QueryExceptions :
       LET e == Raised(t, Len(calls)) IN
       /\ calls' = [calls EXCEPT ![Len(calls)] = Raise(e)]
       /\ IF Matches(e, Transport)
          THEN /\ _client' = start_conversation_discard(_client)
               /\ last_exception' = e
               /\ IF HasAttemptsLeft(attempt, config)
                  THEN \E f \in Draws(config) :
                         LET delay == calculate_delay(config, attempt, f) IN
                         /\ logs' = Append(logs, AgentRetryRecord(attempt, e, delay))
                         /\ waits' = Append(waits, delay)
                         /\ pc' = "sleep"
                         /\ UNCHANGED result
                  ELSE /\ logs' = Append(logs, ErrorRecord("connection"))
                       /\ result' = Raise(RaiseFrom("AgentConnectionError", e))
                       /\ pc' = "done"
                       /\ UNCHANGED waits
          ELSE IF Matches(e, {"Exception"})
          THEN /\ _client' = start_conversation_discard(_client)
               /\ logs' = Append(logs, ErrorRecord("unexpected"))
               /\ result' = Raise(RaiseFrom("AgentConnectionError", e))
               /\ pc' = "done"
               /\ UNCHANGED <<last_exception, waits>>
          ELSE /\ result' = Raise(e)
               /\ pc' = "done"
               /\ UNCHANGED <<_client, last_exception, waits, logs>>
  /\ UNCHANGED <<op, config, retryable, attempt, handles, gen_vars, call_vars, turn_vars>>

\* `await asyncio.sleep(delay)` completes: the loop takes its next value
start_conversation_sleep ==
  /\ op = "_start_conversation" /\ pc = "sleep"
  /\ attempt' = attempt + 1
  /\ pc' = "loop"
  /\ UNCHANGED <<op, config, retryable, last_exception, calls, waits, logs, result>>
  /\ UNCHANGED <<gen_vars, call_vars, session_vars, turn_vars>>

\* the task is cancelled while suspended in asyncio.sleep
start_conversation_sleep_cancelled ==
  /\ op = "_start_conversation" /\ pc = "sleep"
  /\ result' = Raise(Raised("CancelledError", 0))
  /\ pc' = sleep_cancelled_pc(op)
  /\ UNCHANGED <<op, config, retryable, attempt, last_exception, calls, waits, logs>>
  /\ UNCHANGED <<gen_vars, call_vars, session_vars, turn_vars>>

\* variant: the check for an active conversation is missing
turn_precondition_skipped(c) == FALSE

\* `if self._client is None: raise RuntimeError(...)`
turn_precondition_fails(c) == c = 0

\* what a session turn raises when the channel raises e
turn_except(e) ==
  IF Matches(e, Transport) THEN RaiseFrom("AgentConnectionError", e)
  ELSE IF Matches(e, {"GeneratorExit"}) THEN e
  ELSE IF Matches(e, {"Exception"}) THEN RaiseFrom("AgentQueryError", e)
  ELSE e

\* the error record a session turn writes when the channel raises e
turn_log(e) ==
  IF Matches(e, Transport) THEN <<ErrorRecord("connection")>>
  ELSE IF Matches(e, {"GeneratorExit"}) THEN <<>>
  ELSE IF Matches(e, {"Exception"}) THEN <<ErrorRecord("unexpected")>>
  ELSE <<>>

\* variant: a transport failure sends the prompt again while attempts remain
turn_raise_resend(e) ==
  IF Matches(e, Transport) /\ Len(sends) < config.max_attempts
  THEN /\ sends' = Append(sends, _client)
       /\ calls' = Append(calls, [kind |-> "created"])
       /\ pc' = "send"
       /\ UNCHANGED <<logs, result>>
  ELSE /\ logs' = logs \o turn_log(e)
       /\ result' = Raise(turn_except(e))
       /\ pc' = "done"
       /\ calls' = [calls EXCEPT ![Len(calls)] = Raise(e)]
       /\ UNCHANGED sends

\* the except clauses of _continue_conversation and _stream_conversation: the
\* exception e of the channel ends the call
turn_raise(e) ==
  /\ logs' = logs \o turn_log(e)
  /\ result' = Raise(turn_except(e))
  /\ pc' = "done"
  /\ calls' = [calls EXCEPT ![Len(calls)] = Raise(e)]
  /\ UNCHANGED sends

\* _continue_conversation(prompt) is called: RuntimeError without a session, else
\* self._client.query(prompt) is awaited
_continue_conversation ==
  /\ Idle
  /\ op' = "_continue_conversation"
  /\ retryable' = {}
  /\ attempt' = 0 /\ last_exception' = None
  /\ waits' = <<>> /\ logs' = <<>>
  /\ gen' = 0 /\ first_yielded' = FALSE /\ producers' = <<>> /\ delivered' = <<>>
  /\ after' = NoResult
  /\ msgs' = <<>> /\ blocks' = <<>> /\ response_text' = <<>> /\ metadata' = None
  /\ entry_client' = _client /\ exc_val' = None
  /\ IF turn_precondition_fails(_client)
     THEN /\ result' = Raise(Raised("RuntimeError", 0))
          /\ pc' = "done"
          /\ sends' = <<>> /\ calls' = <<>>
     ELSE /\ result' = NoResult
          /\ pc' = "send"
          /\ sends' = <<_client>>
          /\ calls' = <<[kind |-> "created"]>>
  /\ UNCHANGED <<config, session_vars>>

\* `await self._client.query(prompt)` returns
continue_conversation_sent ==
  /\ op = "_continue_conversation" /\ pc = "send"
  /\ pc' = "receive"
  /\ UNCHANGED <<op, config, retryable, retry_vars, gen_vars, call_vars, session_vars, turn_vars>>

\* `async for message in self._client.receive_response()`: the next message arrives
continue_conversation_message ==
  /\ op = "_continue_conversation" /\ pc = "receive"
  /\ Len(msgs) < MaxItems
  /\ \E m \in Messages :
       /\ msgs' = Append(msgs, m)
       /\ response_text' = IF m.kind = "assistant" THEN response_text \o TextsOf(m.content) ELSE response_text
       /\ metadata' = IF m.kind = "result" THEN from_result_message(m) ELSE metadata
  /\ UNCHANGED <<op, pc, config, retryable, retry_vars, gen_vars, blocks, session_vars, turn_vars>>

\* receive_response() ends: return response_text, metadata
continue_conversation_return ==
  /\ op = "_continue_conversation" /\ pc = "receive"
  /\ calls' = [calls EXCEPT ![Len(calls)] = Stop]
  /\ result' = Return([text |-> response_text, metadata |-> metadata])
  /\ pc' = "done"
  /\ UNCHANGED <<op, config, retryable, attempt, last_exception, waits, logs>>
  /\ UNCHANGED <<gen_vars, call_vars, session_vars, turn_vars>>

\* variant: a failed turn discards the session, as a failed connect does
turn_failed_client_cleared(c) == 0

\* self._client after a turn's except clause: neither clause assigns it
turn_failed_client(c) == c

\* query(prompt) or receive_response() raises
continue_conversation_raise ==
  /\ op = "_continue_conversation" /\ pc \in {"send", "receive"}
  /\ \E t \in EnvExceptions : turn_raise(Raised(t, 1))
  /\ UNCHANGED <<op, config, retryable, attempt, last_exception, waits>>
  /\ _client' = turn_failed_client(_client)
  /\ UNCHANGED <<gen_vars, call_vars, handles, entry_client, exc_val>>

\* _stream_conversation(prompt) is called: the generator object exists, its body
\* has not started
_stream_conversation ==
  /\ Idle
  /\ op' = "_stream_conversation"
  /\ retryable' = {}
  /\ Fresh
  /\ pc' = "start"
  /\ UNCHANGED <<config, session_vars>>

\* the consumer awaits __anext__(): the body starts (RuntimeError without a session,
\* else self._client.query(prompt) is awaited) or resumes after `yield block.text`
stream_conversation_anext ==
  /\ op = "_stream_conversation"
  /\ \/ /\ pc = "start"
        /\ IF turn_precondition_fails(_client)
           THEN /\ result' = Raise(Raised("RuntimeError", 0))
                /\ pc' = "done"
                /\ UNCHANGED <<sends, calls>>
           ELSE /\ pc' = "send"
                /\ sends' = <<_client>>
                /\ calls' = <<[kind |-> "created"]>>
                /\ UNCHANGED result
        /\ UNCHANGED <<delivered, blocks>>
     \/ /\ pc = "yielded"
        /\ IF FirstText(blocks) # 0
           THEN /\ delivered' = Append(delivered, blocks[FirstText(blocks)].text)
                /\ blocks' = SubSeq(blocks, FirstText(blocks) + 1, Len(blocks))
                /\ pc' = "yielded"
           ELSE /\ pc' = "receive"
                /\ blocks' = <<>>
                /\ UNCHANGED delivered
        /\ UNCHANGED <<sends, calls, result>>
  /\ UNCHANGED <<op, config, retryable, attempt, last_exception, waits, logs>>
  /\ UNCHANGED <<gen, first_yielded, producers, after, msgs, response_text, metadata>>
  /\ UNCHANGED <<session_vars, entry_client, exc_val>>

\* `await self._client.query(prompt)` returns
stream_conversation_sent ==
  /\ op = "_stream_conversation" /\ pc = "send"
  /\ pc' = "receive"
  /\ UNCHANGED <<op, config, retryable, retry_vars, gen_vars, call_vars, session_vars, turn_vars>>

\* `async for message in self._client.receive_response()`: the next message arrives
\* and its first text block, if any, is yielded
stream_conversation_message ==
  /\ op = "_stream_conversation" /\ pc = "receive"
  /\ Len(msgs) < MaxItems
  /\ \E m \in Messages :
       /\ msgs' = Append(msgs, m)
       /\ IF m.kind = "assistant" /\ FirstText(m.content) # 0
          THEN /\ delivered' = Append(delivered, m.content[FirstText(m.content)].text)
               /\ blocks' = SubSeq(m.content, FirstText(m.content) + 1, Len(m.content))
               /\ pc' = "yielded"
          ELSE /\ pc' = "receive"
               /\ UNCHANGED <<delivered, blocks>>
  /\ UNCHANGED <<op, config, retryable, retry_vars, gen, first_yielded, producers, after>>
  /\ UNCHANGED <<response_text, metadata, session_vars, turn_vars>>

\* receive_response() ends: the generator is exhausted
stream_conversation_end ==
  /\ op = "_stream_conversation" /\ pc = "receive"
  /\ calls' = [calls EXCEPT ![Len(calls)] = Stop]
  /\ result' = Stop
  /\ pc' = "done"
  /\ UNCHANGED <<op, config, retryable, attempt, last_exception, waits, logs>>
  /\ UNCHANGED <<gen_vars, call_vars, session_vars, turn_vars>>

\* query(prompt) or receive_response() raises
stream_conversation_raise ==
  /\ op = "_stream_conversation" /\ pc \in {"send", "receive"}
  /\ \E t \in EnvExceptions : turn_raise(Raised(t, 1))
  /\ UNCHANGED <<op, config, retryable, attempt, last_exception, waits>>
  /\ _client' = turn_failed_client(_client)
  /\ UNCHANGED <<gen_vars, call_vars, handles, entry_client, exc_val>>

\* the consumer awaits aclose(): GeneratorExit is raised at `yield block.text` and
\* re-raised; a generator that has not started is closed without running
stream_conversation_aclose ==
  /\ op = "_stream_conversation" /\ pc \in {"start", "yielded"}
  /\ result' = [kind |-> "closed"]
  /\ pc' = "done"
  /\ UNCHANGED <<op, config, retryable, attempt, last_exception, calls, waits, logs>>
  /\ UNCHANGED <<gen_vars, call_vars, session_vars, turn_vars>>

\* exception classes disconnect() raises
DisconnectExceptions == {"ConnectionError", "ValueError", "CancelledError"}

\* _end_conversation() is called: nothing to do without a session, else
\* self._client.disconnect() is awaited
_end_conversation ==
  /\ Idle
  /\ op' = "_end_conversation"
  /\ retryable' = {}
  /\ attempt' = 0 /\ last_exception' = None
  /\ calls' = <<>> /\ waits' = <<>> /\ logs' = <<>>
  /\ gen' = 0 /\ first_yielded' = FALSE /\ producers' = <<>> /\ delivered' = <<>>
  /\ after' = NoResult
  /\ msgs' = <<>> /\ blocks' = <<>> /\ response_text' = <<>> /\ metadata' = None
  /\ sends' = <<>> /\ entry_client' = _client /\ exc_val' = None
  /\ IF _client # 0
     THEN /\ pc' = "disconnect"
          /\ result' = NoResult
     ELSE /\ pc' = "done"
          /\ result' = Return(None)
  /\ UNCHANGED <<config, session_vars>>

\* `await self._client.disconnect()` returns: self._client = None
end_conversation_disconnected ==
  /\ op = "_end_conversation" /\ pc = "disconnect"
  /\ handles' = [handles EXCEPT ![_client].state = "disconnected"]
  /\ _client' = 0
  /\ calls' = <<Return(None)>>
  /\ result' = Return(None)
  /\ pc' = "done"
  /\ UNCHANGED <<op, config, retryable, attempt, last_exception, waits, logs>>
  /\ UNCHANGED <<gen_vars, call_vars, turn_vars>>

\* `await self._client.disconnect()` raises: the assignment after it is skipped
end_conversation_raise ==
  /\ op = "_end_conversation" /\ pc = "disconnect"
  /\ \E t \in DisconnectExceptions :
       /\ calls' = <<Raise(Raised(t, 1))>>
       /\ result' = Raise(Raised(t, 1))
  /\ pc' = "done"
  /\ UNCHANGED <<op, config, retryable, attempt, last_exception, waits, logs>>
  /\ UNCHANGED <<gen_vars, call_vars, session_vars, turn_vars>>

\* exceptions the body of `async with agent` can leave with
BodyExceptions == {None, Raised("ValueError", 0), Raised("CancelledError", 0)}

\* __aexit__(exc_type, exc_val, exc_tb) is called: _end_conversation() is awaited
__aexit__ ==
  /\ Idle
  /\ op' = "__aexit__"
  /\ retryable' = {}
  /\ \E b \in BodyExceptions : exc_val' = b
  /\ attempt' = 0 /\ last_exception' = None
  /\ calls' = <<>> /\ waits' = <<>> /\ logs' = <<>>
  /\ gen' = 0 /\ first_yielded' = FALSE /\ producers' = <<>> /\ delivered' = <<>>
  /\ after' = NoResult
  /\ msgs' = <<>> /\ blocks' = <<>> /\ response_text' = <<>> /\ metadata' = None
  /\ sends' = <<>> /\ entry_client' = _client
  /\ IF _client # 0
     THEN /\ pc' = "disconnect"
          /\ result' = NoResult
     ELSE /\ pc' = "done"
          /\ result' = Return(None)
  /\ UNCHANGED <<config, session_vars>>

\* _end_conversation() returns inside __aexit__
aexit_disconnected ==
  /\ op = "__aexit__" /\ pc = "disconnect"
  /\ handles' = [handles EXCEPT ![_client].state = "disconnected"]
  /\ _client' = 0
  /\ calls' = <<Return(None)>>
  /\ result' = Return(None)
  /\ pc' = "done"
  /\ UNCHANGED <<op, config, retryable, attempt, last_exception, waits, logs>>
  /\ UNCHANGED <<gen_vars, call_vars, turn_vars>>

\* variant: the cleanup error is raised whatever the body did
aexit_outcome_masking(ev, e) == Raise(e)

\* `if exc_val is None: raise`, else the handler ends and __aexit__ returns None
aexit_outcome(ev, e) == IF ev = None THEN Raise(e) ELSE Return(None)

\* _end_conversation() raises inside __aexit__: `except Exception` logs it and
\* re-raises it only when the body raised nothing
aexit_raise ==
  /\ op = "__aexit__" /\ pc = "disconnect"
  /\ \E t \in DisconnectExceptions :
       LET e == Raised(t, 1) IN
       /\ calls' = <<Raise(e)>>
       /\ IF Matches(e, {"Exception"})
          THEN /\ logs' = Append(logs, ErrorRecord("cleanup"))
               /\ result' = aexit_outcome(exc_val, e)
          ELSE /\ result' = Raise(e)
               /\ UNCHANGED logs
  /\ pc' = "done"
  /\ UNCHANGED <<op, config, retryable, attempt, last_exception, waits>>
  /\ UNCHANGED <<gen_vars, call_vars, session_vars, turn_vars>>

(* --------------------------- specifications --------------------------- *)

Init ==
  /\ op = "idle" /\ pc = "idle"
  /\ config \in Configs
  /\ retryable = {}
  /\ attempt = 0
  /\ last_exception = None
  /\ calls = <<>> /\ waits = <<>> /\ logs = <<>>
  /\ result = NoResult
  /\ gen = 0 /\ first_yielded = FALSE
  /\ producers = <<>> /\ delivered = <<>>
  /\ after = NoResult
  /\ msgs = <<>> /\ blocks = <<>>
  /\ response_text = <<>> /\ metadata = None
  /\ _client = 0 /\ handles = <<>>
  /\ sends = <<>>
  /\ entry_client = 0
  /\ exc_val = None

NextStream ==
  \/ consumer_anext
  \/ gen_sleep
  \/ gen_sleep_cancelled
  \/ gen_finally
  \/ _stream_claude
  \/ create_stream
  \/ create_stream_anext
  \/ stream_aclose
  \/ asyncgen_finalizer

SpecStream == Init /\ [][NextStream]_vars

NextBlocking ==
  \/ _call_claude
  \/ call_claude_iteration
  \/ call_claude_message
  \/ call_claude_return
  \/ call_claude_raise
  \/ call_claude_sleep
  \/ call_claude_sleep_cancelled
  \/ quick_query
  \/ quick_query_iteration
  \/ quick_query_message
  \/ quick_query_return
  \/ quick_query_raise
  \/ quick_query_sleep
  \/ quick_query_sleep_cancelled

SpecBlocking == Init /\ [][NextBlocking]_vars

NextSession ==
  \/ _start_conversation
  \/ start_conversation_iteration
  \/ start_conversation_connected
  \/ start_conversation_raise
  \/ start_conversation_sleep
  \/ start_conversation_sleep_cancelled
  \/ _continue_conversation
  \/ continue_conversation_sent
  \/ continue_conversation_message
  \/ continue_conversation_return
  \/ continue_conversation_raise
  \/ _stream_conversation
  \/ stream_conversation_anext
  \/ stream_conversation_sent
  \/ stream_conversation_message
  \/ stream_conversation_end
  \/ stream_conversation_raise
  \/ stream_conversation_aclose
  \/ _end_conversation
  \/ end_conversation_disconnected
  \/ end_conversation_raise
  \/ __aexit__
  \/ aexit_disconnected
  \/ aexit_raise

SpecSession == Init /\ [][NextSession]_vars

NextGenerators ==
  \/ retry_async_generator
  \/ consumer_anext
  \/ consumer_aclose
  \/ gen_factory
  \/ gen_anext
  \/ gen_sleep
  \/ gen_sleep_cancelled
  \/ gen_finally
  \/ _stream_claude
  \/ create_stream
  \/ create_stream_anext
  \/ stream_aclose
  \/ asyncgen_finalizer

SpecGenerators == Init /\ [][NextGenerators]_vars

NextRetry ==
  \/ wrapper_call
  \/ wrapper_attempt
  \/ wrapper_sleep
  \/ wrapper_sleep_cancelled
  \/ retry_async_generator
  \/ consumer_anext
  \/ consumer_aclose
  \/ gen_factory
  \/ gen_anext
  \/ gen_sleep
  \/ gen_sleep_cancelled
  \/ gen_finally

SpecRetry == Init /\ [][NextRetry]_vars

\* the five retry loops. The decorators, _call_claude and quick_query neither
\* read nor write self._client, so their calls are explored on the instance
\* before its first connect only.
NextLoops ==
  \/ handles = <<>> /\ wrapper_call
  \/ handles = <<>> /\ wrapper_attempt
  \/ handles = <<>> /\ wrapper_sleep
  \/ handles = <<>> /\ wrapper_sleep_cancelled
  \/ handles = <<>> /\ retry_async_generator
  \/ handles = <<>> /\ consumer_anext
  \/ handles = <<>> /\ consumer_aclose
  \/ handles = <<>> /\ gen_factory
  \/ handles = <<>> /\ gen_anext
  \/ handles = <<>> /\ gen_sleep
  \/ handles = <<>> /\ gen_sleep_cancelled
  \/ handles = <<>> /\ gen_finally
  \/ handles = <<>> /\ _call_claude
  \/ handles = <<>> /\ call_claude_iteration
  \/ handles = <<>> /\ call_claude_message
  \/ handles = <<>> /\ call_claude_return
  \/ handles = <<>> /\ call_claude_raise
  \/ handles = <<>> /\ call_claude_sleep
  \/ handles = <<>> /\ call_claude_sleep_cancelled
  \/ handles = <<>> /\ quick_query
  \/ handles = <<>> /\ quick_query_iteration
  \/ handles = <<>> /\ quick_query_message
  \/ handles = <<>> /\ quick_query_return
  \/ handles = <<>> /\ quick_query_raise
  \/ handles = <<>> /\ quick_query_sleep
  \/ handles = <<>> /\ quick_query_sleep_cancelled
  \/ _start_conversation
  \/ start_conversation_iteration
  \/ start_conversation_connected
  \/ start_conversation_raise
  \/ start_conversation_sleep
  \/ start_conversation_sleep_cancelled

SpecLoops == Init /\ [][NextLoops]_vars

NextConfig ==
  \/ RetryConfig
  \/ calculate_delay_call

SpecConfig == Init /\ [][NextConfig]_vars

\* the first session of the instance is open
FirstSessionOpen == _client = 1 /\ handles = <<[state |-> "connected"]>>

\* the methods of BaseAgent that exchange messages, called while the first
\* session of the instance is open
NextFrame ==
  \/ _start_conversation
  \/ start_conversation_iteration
  \/ start_conversation_connected
  \/ start_conversation_raise
  \/ start_conversation_sleep
  \/ start_conversation_sleep_cancelled
  \/ FirstSessionOpen /\ _call_claude
  \/ FirstSessionOpen /\ call_claude_iteration
  \/ FirstSessionOpen /\ call_claude_message
  \/ FirstSessionOpen /\ call_claude_return
  \/ FirstSessionOpen /\ call_claude_raise
  \/ FirstSessionOpen /\ call_claude_sleep
  \/ FirstSessionOpen /\ call_claude_sleep_cancelled
  \/ FirstSessionOpen /\ consumer_anext
  \/ FirstSessionOpen /\ gen_sleep
  \/ FirstSessionOpen /\ gen_sleep_cancelled
  \/ FirstSessionOpen /\ gen_finally
  \/ FirstSessionOpen /\ _stream_claude
  \/ FirstSessionOpen /\ create_stream
  \/ FirstSessionOpen /\ create_stream_anext
  \/ FirstSessionOpen /\ stream_aclose
  \/ FirstSessionOpen /\ asyncgen_finalizer
  \/ FirstSessionOpen /\ _continue_conversation
  \/ FirstSessionOpen /\ continue_conversation_sent
  \/ FirstSessionOpen /\ continue_conversation_message
  \/ FirstSessionOpen /\ continue_conversation_return
  \/ FirstSessionOpen /\ continue_conversation_raise
  \/ FirstSessionOpen /\ _stream_conversation
  \/ FirstSessionOpen /\ stream_conversation_anext
  \/ FirstSessionOpen /\ stream_conversation_sent
  \/ FirstSessionOpen /\ stream_conversation_message
  \/ FirstSessionOpen /\ stream_conversation_end
  \/ FirstSessionOpen /\ stream_conversation_raise
  \/ FirstSessionOpen /\ stream_conversation_aclose

SpecFrame == Init /\ [][NextFrame]_vars

(* ----------------------------- properties ----------------------------- *)

InWrapper == op = "retry_on_transient_error"
InGenerator == op = "retry_async_generator"

IsRaise(r) == r.kind = "raise"
\* r records a raised exception that `except retryable_exceptions` matches
IsRetryableRaise(r) == IsRaise(r) /\ Matches(r.exc, retryable)
\* r records a raised exception that `except retryable_exceptions` does not match
IsOtherRaise(r) == IsRaise(r) /\ ~Matches(r.exc, retryable)

\* the task was cancelled while it slept between attempts
CancelledInSleep == result = Raise(Raised("CancelledError", 0))

\* `await gen.aclose()` of a producer of the current call ended with CancelledError
CloseCancelled == \E i \in 1..Len(producers) : producers[i].close_exc = "CancelledError"

RetryRecords == SelectSeq(logs, LAMBDA r : r.msg = "retry")

\* the producer the i-th factory invocation created
ProducerOf(i) == Cardinality({j \in 1..i : calls[j].kind = "created"})

\* how the i-th attempt of retry_async_generator went: the factory's exception, or
\* the end of the producer it created
AttemptEnd(i) == IF IsRaise(calls[i]) THEN calls[i] ELSE producers[ProducerOf(i)].end

\* the i-th attempt raised a retryable exception before it yielded anything
FailedBeforeYield(i) ==
  /\ IsRetryableRaise(AttemptEnd(i))
  /\ calls[i].kind = "created" => producers[ProducerOf(i)].out = <<>>

\* C1: in retry_async_generator every factory invocation happens while nothing has
\* been delivered to the consumer, and a retryable exception raised after the first
\* item ends the wrapper with that exception, with attempts left or not (unless
\* closing the producer is itself cancelled).
C1_FactoryOnlyBeforeDelivery ==
  [][/\ (InGenerator /\ op' = op /\ Len(calls') > Len(calls)) => delivered = <<>>
     /\ (InGenerator /\ op' = op /\ pc = "anext" /\ delivered # <<>>
           /\ IsRetryableRaise(producers'[gen].end))
        => (pc' = "finally" /\ after' = producers'[gen].end /\ calls' = calls)
     /\ (InGenerator /\ op' = op /\ pc = "finally" /\ IsRaise(after))
        => (pc' = "done" /\ (result' = after \/ CloseCancelled') /\ calls' = calls)]_vars

C1_Witness ==
  /\ InGenerator /\ pc = "done"
  /\ delivered # <<>>
  /\ IsRetryableRaise(result)
  /\ result.exc.src = 1 /\ Len(calls) = 1
  /\ attempt < config.max_attempts - 1

\* s is an initial segment of t
IsPrefix(s, t) == Len(s) <= Len(t) /\ s = SubSeq(t, 1, Len(s))

\* C2: in retry_async_generator and in _stream_claude the items delivered to the
\* consumer are at every moment a prefix of what the last producer created has
\* yielded, in order, and no earlier producer has yielded anything.
C2_DeliveredFromLastProducer ==
  op \in GenOps =>
    /\ producers = <<>> => delivered = <<>>
    /\ producers # <<>> =>
         /\ IsPrefix(delivered, producers[Len(producers)].out)
         /\ \A i \in 1..(Len(producers) - 1) : producers[i].out = <<>>

C2_Witness ==
  /\ op = "_stream_claude"
  /\ Len(producers) = 2
  /\ IsRaise(producers[1].end)
  /\ Len(delivered) = 2

C2_WitnessGenerator ==
  /\ InGenerator
  /\ Len(producers) = 2
  /\ IsRaise(producers[1].end)
  /\ Len(delivered) = 2

\* C3: when _start_conversation was called with no session handle and ends by
\* raising, self._client is None.
C3_RaiseLeavesHandleAbsent ==
  (op = "_start_conversation" /\ pc = "done" /\ IsRaise(result) /\ entry_client = 0)
    => _client = 0

\* C4: in retry_on_transient_error a success is the last invocation: everything
\* before it raised a retryable exception, the wrapper is done and returns that
\* value; and the wrapper never gives up while attempts remain.
C4_SuccessAfterFailures ==
  InWrapper =>
    /\ \A i \in 1..Len(calls) :
         calls[i].kind = "return" =>
           /\ i = Len(calls) /\ i <= config.max_attempts
           /\ \A j \in 1..(i - 1) : IsRetryableRaise(calls[j])
           /\ pc = "done" /\ result = calls[i]
    /\ (pc = "done" /\ ~CancelledInSleep /\ Len(calls) < config.max_attempts)
         => ~IsRetryableRaise(calls[Len(calls)])

C4_Witness ==
  /\ InWrapper /\ pc = "done"
  /\ Len(calls) = 3
  /\ result.kind = "return"

\* C5: when every invocation raised a retryable exception, retry_on_transient_error
\* has invoked the operation max_attempts times and raises the exception of the
\* last invocation itself.
C5_ExhaustionRaisesLast ==
  (InWrapper /\ pc = "done" /\ ~CancelledInSleep
     /\ \A i \in 1..Len(calls) : IsRetryableRaise(calls[i]))
  => /\ Len(calls) = config.max_attempts
     /\ result = calls[Len(calls)]
     /\ result.exc.src = config.max_attempts

C5_Witness ==
  /\ InWrapper /\ pc = "done"
  /\ Len(calls) = 3
  /\ IsRetryableRaise(result)
  /\ calls[1].exc.type # calls[3].exc.type

\* C6: a non-retryable exception raised by any attempt ends both wrappers at once:
\* it is the last invocation, it is what the caller gets (unless closing the
\* producer is itself cancelled), and every wait and retry record belongs to an
\* earlier failed attempt.
C6_NonRetryablePropagates ==
  /\ InWrapper =>
       \A i \in 1..Len(calls) :
         IsOtherRaise(calls[i]) =>
           /\ i = Len(calls)
           /\ pc = "done" /\ result = calls[i]
           /\ Len(waits) = i - 1 /\ Len(RetryRecords) = i - 1
  /\ InGenerator =>
       \A i \in 1..Len(calls) :
         IsOtherRaise(AttemptEnd(i)) =>
           /\ i = Len(calls)
           /\ pc \in {"finally", "done"}
           /\ pc = "finally" => after = AttemptEnd(i)
           /\ pc = "done" => (result = AttemptEnd(i) \/ CloseCancelled)
           /\ Len(waits) = i - 1 /\ Len(RetryRecords) = i - 1

C6_Witness ==
  /\ InGenerator /\ pc = "done"
  /\ Len(calls) = 2 /\ attempt < config.max_attempts - 1
  /\ delivered # <<>>
  /\ result = Raise(Raised("ValueError", 2))

\* C7: retry_async_generator ends normally exactly when the last producer created
\* completed (and closing it was not cancelled), after only failures before the
\* first item, having delivered that
\* producer's whole sequence; when every attempt failed before its first item it
\* has invoked the factory max_attempts times and raises the last attempt's exception.
C7_GeneratorRetriesSetup ==
  InGenerator =>
    /\ Len(calls) <= config.max_attempts
    /\ \A i \in 1..Len(calls) :
         AttemptEnd(i) = Stop =>
           /\ i = Len(calls)
           /\ \A j \in 1..(i - 1) : FailedBeforeYield(j)
           /\ delivered = producers[ProducerOf(i)].out
           /\ pc \in {"finally", "done"}
           /\ pc = "finally" => after = Stop
           /\ pc = "done" => (result = Stop \/ CloseCancelled)
    /\ (pc = "done" /\ result = Stop) => (calls # <<>> /\ AttemptEnd(Len(calls)) = Stop)
    /\ (pc = "done" /\ ~CancelledInSleep /\ calls # <<>>
          /\ \A i \in 1..Len(calls) : FailedBeforeYield(i))
       => /\ Len(calls) = config.max_attempts
          /\ result = AttemptEnd(Len(calls))

C7_Witness ==
  /\ InGenerator /\ pc = "done"
  /\ Len(calls) = 3
  /\ result = Stop
  /\ Len(delivered) = 2

C7_WitnessExhausted ==
  /\ InGenerator /\ pc = "done"
  /\ Len(calls) = 3
  /\ IsRetryableRaise(result)
  /\ delivered = <<>>

InTurn == op \in {"_continue_conversation", "_stream_conversation"}

\* C8: a session turn sends the prompt at most once and never waits, whatever the
\* retry configuration, and a transport failure of the channel ends the call with
\* AgentConnectionError raised from it.
C8_TurnSingleAttempt ==
  InTurn =>
    /\ Len(sends) <= 1
    /\ Len(calls) <= 1
    /\ waits = <<>>
    /\ \A i \in 1..Len(calls) :
         (IsRaise(calls[i]) /\ Matches(calls[i].exc, Transport)) =>
           /\ pc = "done"
           /\ result = Raise(RaiseFrom("AgentConnectionError", calls[i].exc))

C8_Witness ==
  /\ op = "_continue_conversation" /\ pc = "done"
  /\ config.max_attempts > 1
  /\ calls = <<Raise(Raised("OSError", 1))>>
  /\ sends = <<_client>>
  /\ msgs # <<>>

C8_WitnessStream ==
  /\ op = "_stream_conversation" /\ pc = "done"
  /\ config.max_attempts > 1
  /\ calls = <<Raise(Raised("TimeoutError", 1))>>
  /\ sends = <<_client>>
  /\ delivered # <<>>

\* what a session turn does when self._client is None
PreconditionError ==
  /\ pc' = "done"
  /\ result' = Raise(Raised("RuntimeError", 0))
  /\ sends' = <<>>
  /\ calls' = <<>>
  /\ UNCHANGED session_vars

\* C9: with self._client None, a call of _continue_conversation and the first
\* __anext__() of _stream_conversation raise RuntimeError, send nothing to the
\* channel and leave self._client and every handle as they were.
C9_AbsentHandleRaises ==
  [][/\ (Idle /\ op' = "_continue_conversation" /\ _client = 0) => PreconditionError
     /\ (op = "_stream_conversation" /\ pc = "start" /\ _client = 0
           /\ pc' # pc /\ result'.kind # "closed") => PreconditionError]_vars

C9_Witness ==
  /\ op = "_continue_conversation" /\ pc = "done"
  /\ result = Raise(Raised("RuntimeError", 0))
  /\ handles # <<>>
  /\ handles[Len(handles)].state = "disconnected"
  /\ _client = 0

C9_WitnessStream ==
  /\ op = "_stream_conversation" /\ pc = "done"
  /\ result = Raise(Raised("RuntimeError", 0))
  /\ handles # <<>>
  /\ handles[Len(handles)].state = "new"
  /\ _client = 0

\* the text of the TextBlocks of the AssistantMessages of ms, in order
RECURSIVE TextOfMessages(_)
TextOfMessages(ms) ==
  IF ms = <<>> THEN <<>>
  ELSE (IF ms[1].kind = "assistant" THEN TextsOf(ms[1].content) ELSE <<>>)
         \o TextOfMessages(Tail(ms))

\* the metadata of the last ResultMessage of ms, the fallback metadata without one
RECURSIVE MetadataOfMessages(_)
MetadataOfMessages(ms) ==
  IF ms = <<>> THEN FallbackMetadata
  ELSE IF ms[Len(ms)].kind = "result" THEN from_result_message(ms[Len(ms)])
  ELSE MetadataOfMessages(SubSeq(ms, 1, Len(ms) - 1))

IsTransportRaise(r) == IsRaise(r) /\ Matches(r.exc, Transport)

\* C10: in _call_claude a query that completes is the last attempt: every attempt
\* before it ended with a transport failure, the call is done, and it returns the
\* text and the metadata of the messages of that attempt alone; and after k
\* transport failures and nothing else the call has ended only if k = max_attempts
\* or it was cancelled while it waited.
C10_ResultFromSuccessfulAttempt ==
  op = "_call_claude" =>
    /\ \A i \in 1..Len(calls) :
         calls[i] = Stop =>
           /\ i = Len(calls)
           /\ i <= config.max_attempts
           /\ pc = "done"
           /\ \A j \in 1..(i - 1) : IsTransportRaise(calls[j])
           /\ result = Return([text |-> TextOfMessages(msgs),
                               metadata |-> MetadataOfMessages(msgs)])
    /\ (pc = "done" /\ \A i \in 1..Len(calls) : IsTransportRaise(calls[i]))
         => (Len(calls) = config.max_attempts \/ CancelledInSleep)

C10_Witness ==
  /\ op = "_call_claude" /\ pc = "done"
  /\ Len(calls) = 3
  /\ calls[1].partial /\ calls[2].partial
  /\ calls[3] = Stop
  /\ Len(result.value.text) = 1
  /\ result.value.metadata.tokens_in = 10

BlockingOps == {"_call_claude", "quick_query"}

\* e is ConnectionError, TimeoutError, OSError or a subclass of one of them
IsOSError(e) == IsSubclass(e.type, "OSError")

\* C11: in _call_claude and quick_query, when every attempt has ended with a
\* transport failure and the call is over (and was not cancelled while it waited),
\* max_attempts attempts were made and the call raises AgentConnectionError from
\* the exception of the last attempt; while it is not over no more than
\* max_attempts attempts have begun.
C11_ExhaustionAfterMaxAttempts ==
  op \in BlockingOps =>
    /\ Len(calls) <= config.max_attempts
    /\ (pc = "done" /\ ~CancelledInSleep
          /\ \A i \in 1..Len(calls) : IsRaise(calls[i]) /\ IsOSError(calls[i].exc))
         => /\ Len(calls) = config.max_attempts
            /\ \A i \in 1..Len(calls) : calls[i].exc.src = i
            /\ result = Raise(RaiseFrom("AgentConnectionError", calls[Len(calls)].exc))

C11_Witness ==
  /\ op = "_call_claude" /\ pc = "done"
  /\ config.max_attempts = 3
  /\ Len(calls) = 3
  /\ result = Raise(RaiseFrom("AgentConnectionError", Raised("ConnectionError", 3)))

C11_WitnessQuick ==
  /\ op = "quick_query" /\ pc = "done"
  /\ config.max_attempts = 3
  /\ Len(calls) = 3
  /\ result = Raise(RaiseFrom("AgentConnectionError", Raised("TimeoutError", 3)))

\* C12: in _call_claude and quick_query an attempt that ends with an Exception
\* other than a transport failure is the last attempt: the call is over, raises
\* AgentQueryError from that exception, and has waited only once after each
\* earlier attempt.
C12_OtherExceptionEndsCall ==
  op \in BlockingOps =>
    \A i \in 1..Len(calls) :
      (IsRaise(calls[i]) /\ Matches(calls[i].exc, {"Exception"}) /\ ~IsOSError(calls[i].exc)) =>
        /\ i = Len(calls)
        /\ pc = "done"
        /\ result = Raise(RaiseFrom("AgentQueryError", calls[i].exc))
        /\ Len(waits) = i - 1

C12_Witness ==
  /\ op = "_call_claude" /\ pc = "done"
  /\ config.max_attempts = 3
  /\ Len(calls) = 2
  /\ result = Raise(RaiseFrom("AgentQueryError", Raised("ValueError", 2)))

C12_WitnessQuick ==
  /\ op = "quick_query" /\ pc = "done"
  /\ config.max_attempts = 3
  /\ Len(calls) = 1
  /\ result = Raise(RaiseFrom("AgentQueryError", Raised("ValueError", 1)))

\* the i-th producer of _stream_claude ended with AgentConnectionError raised from a
\* transport failure of query()
EndedByTransport(i) ==
  /\ IsRaise(producers[i].end)
  /\ producers[i].end.exc.type = "AgentConnectionError"
  /\ IsOSError(producers[i].end.exc.cause)

\* C13: in _stream_claude a producer is followed by another one only if it ended
\* with a transport failure before it yielded anything; after such a failure the
\* call is over only if max_attempts producers were created or it was cancelled
\* while it waited; a transport failure after a fragment ends the last producer,
\* everything it yielded has been delivered, no wait follows, and the call ends by
\* raising that AgentConnectionError.
C13_StreamRetriesOnlyBeforeFirstFragment ==
  op = "_stream_claude" =>
    /\ Len(producers) <= config.max_attempts
    /\ \A i \in 1..Len(producers) :
         /\ i < Len(producers) => (EndedByTransport(i) /\ producers[i].out = <<>>)
         /\ (EndedByTransport(i) /\ producers[i].out = <<>> /\ pc = "done") =>
              \/ i < Len(producers)
              \/ CancelledInSleep
              \/ Len(producers) = config.max_attempts /\ result = producers[i].end
         /\ (EndedByTransport(i) /\ producers[i].out # <<>>) =>
              /\ i = Len(producers)
              /\ delivered = producers[i].out
              /\ Len(waits) = i - 1
              /\ pc \in {"finally", "done"}
              /\ pc = "done" => result = producers[i].end

C13_Witness ==
  /\ op = "_stream_claude" /\ pc = "done"
  /\ config.max_attempts = 3
  /\ Len(producers) = 2
  /\ producers[1].out = <<>>
  /\ EndedByTransport(2)
  /\ Len(delivered) = 2
  /\ result = producers[2].end

\* C14: in _start_conversation called with self._client None, every connect() is
\* awaited on a handle constructed for that attempt; a connect() that returns is
\* the last one, every one before it ended with a transport failure and left its
\* handle unconnected, and the call returns with self._client the connected handle
\* of that attempt; after transport failures only, the call is over only when
\* max_attempts connects were made or it was cancelled while it waited.
C14_OpenSucceedsAfterFailures ==
  /\ []((op = "_start_conversation" /\ entry_client = 0) =>
          /\ Len(calls) <= config.max_attempts
          /\ Len(calls) <= Len(handles)
          /\ \A i \in 1..Len(calls) :
               calls[i] = Return(None) =>
                 /\ i = Len(calls)
                 /\ pc = "done"
                 /\ result = Return(None)
                 /\ \A j \in 1..(i - 1) :
                      /\ IsRaise(calls[j]) /\ IsOSError(calls[j].exc)
                      /\ handles[Len(handles) - i + j].state = "new"
                 /\ _client = Len(handles)
                 /\ handles[_client].state = "connected"
          /\ (pc = "done" /\ ~CancelledInSleep
                /\ \A i \in 1..Len(calls) : IsRaise(calls[i]) /\ IsOSError(calls[i].exc))
               => Len(calls) = config.max_attempts)
  /\ [][(op = "_start_conversation" /\ op' = op /\ Len(calls') > Len(calls)) =>
          /\ Len(calls') = Len(calls) + 1
          /\ handles' = Append(handles, NewHandle)
          /\ _client' = Len(handles')]_vars

C14_Witness ==
  /\ op = "_start_conversation" /\ pc = "done"
  /\ entry_client = 0
  /\ Len(handles) = 3
  /\ handles[1].state = "disconnected"
  /\ calls = <<Raise(Raised("TimeoutError", 1)), Return(None)>>
  /\ _client = 3

\* the calls that talk to the remote service
CallShapes ==
  {"_call_claude", "_stream_claude", "_start_conversation", "_continue_conversation",
   "_stream_conversation"}

\* the class an Exception e of the remote service is reported as
ClassOf(e) == IF IsOSError(e) THEN "AgentConnectionError" ELSE "AgentQueryError"

\* C15: in every call to the remote service that ends because the service raised
\* an Exception, the caller receives AgentConnectionError when it is a transport
\* failure and AgentQueryError otherwise, raised from that exception.
C15_ErrorsClassifiedByKind ==
  /\ (op \in CallShapes \ {"_stream_claude"} /\ pc = "done" /\ ~CancelledInSleep
        /\ calls # <<>> /\ IsRaise(calls[Len(calls)])
        /\ Matches(calls[Len(calls)].exc, {"Exception"}))
       => result = Raise(RaiseFrom(ClassOf(calls[Len(calls)].exc), calls[Len(calls)].exc))
  /\ (op = "_stream_claude" /\ pc = "done" /\ IsRaise(result)
        /\ Matches(result.exc, {"Exception"}))
       => /\ result.exc.type \in {"AgentConnectionError", "AgentQueryError"}
          /\ result.exc.type = ClassOf(result.exc.cause)

\* disconnect() was interrupted by a cancellation of the task
CancelledInDisconnect == calls = <<Raise(Raised("CancelledError", 1))>>

\* C16: when a call of _end_conversation that was not cancelled is over, it has
\* called disconnect() once and cleared self._client if a handle was present at
\* entry, and has done nothing and returned if none was.
C16_CloseIdempotent ==
  (op = "_end_conversation" /\ pc = "done" /\ ~CancelledInDisconnect) =>
    IF entry_client # 0
    THEN /\ Len(calls) = 1
         /\ _client = 0
         /\ handles[entry_client].state = "disconnected"
    ELSE /\ calls = <<>>
         /\ result = Return(None)
         /\ _client = 0

\* C17: when _end_conversation or __aexit__ is over, self._client is None.
C17_CloseLeavesHandleAbsent ==
  (op \in {"_end_conversation", "__aexit__"} /\ pc = "done") => _client = 0

\* the exception the caller of the `async with` block receives: the one __aexit__
\* raises, else the one of the body
ScopeException == IF IsRaise(result) THEN result.exc ELSE exc_val

\* C18: when __aexit__ is over it has called disconnect() if a handle was present,
\* and unless the task was cancelled in disconnect() the caller of the block
\* receives the exception of the body if the body raised, with an error record
\* for a failed disconnect(); else the exception of disconnect() if it raised;
\* else none.
C18_ExitKeepsBodyException ==
  (op = "__aexit__" /\ pc = "done") =>
    /\ Len(calls) = IF entry_client # 0 THEN 1 ELSE 0
    /\ ~CancelledInDisconnect =>
         /\ exc_val # None =>
              /\ ScopeException = exc_val
              /\ (calls # <<>> /\ IsRaise(calls[1])) => logs = <<ErrorRecord("cleanup")>>
         /\ (exc_val = None /\ calls # <<>> /\ IsRaise(calls[1])) =>
              ScopeException = calls[1].exc
         /\ (exc_val = None /\ ~(calls # <<>> /\ IsRaise(calls[1]))) =>
              ScopeException = None

C18_Witness ==
  /\ op = "__aexit__" /\ pc = "done"
  /\ exc_val = Raised("ValueError", 0)
  /\ calls = <<Raise(Raised("ConnectionError", 1))>>
  /\ result = Return(None)

C18_WitnessCleanupRaises ==
  /\ op = "__aexit__" /\ pc = "done"
  /\ exc_val = None
  /\ result = Raise(Raised("ConnectionError", 1))

HasResultMessage(ms) == \E i \in 1..Len(ms) : ms[i].kind = "result"

FallbackRecords == SelectSeq(logs, LAMBDA r : r.msg = "no_result")

\* C19: when query() of _call_claude completes without a ResultMessage the call
\* is over and returns the text collected in that attempt with a metadata whose
\* tokens_in, tokens_out, latency_ms and cost_usd are 0, one fallback warning is
\* logged and no wait follows; with a ResultMessage no fallback warning is logged.
C19_FallbackMetadata ==
  (op = "_call_claude" /\ calls # <<>> /\ calls[Len(calls)] = Stop) =>
    IF ~HasResultMessage(msgs)
    THEN /\ pc = "done"
         /\ result = Return([text |-> TextOfMessages(msgs),
                             metadata |-> AgentMetadata(0, 0, 0, 0, None)])
         /\ Len(FallbackRecords) = 1
         /\ Len(waits) = Len(calls) - 1
    ELSE FallbackRecords = <<>>

C19_Witness ==
  /\ op = "_call_claude" /\ pc = "done"
  /\ calls = <<Stop>>
  /\ Len(msgs) = 2
  /\ ~HasResultMessage(msgs)
  /\ Len(result.value.text) = 3
  /\ result.value.metadata.tokens_in = 0
  /\ logs = <<FallbackRecord>>

\* C20 as stated: in retry_async_generator aclose() has been called on every
\* producer that is not the last one created, and on the last one too when the
\* wrapper is over.
C20_EveryProducerClosed ==
  InGenerator =>
    \A i \in 1..Len(producers) :
      (i < Len(producers) \/ pc = "done") => producers[i].closed >= 1

\* C20: in retry_async_generator aclose() is called at most once on a producer; it
\* has been called on every producer that has aclose and is not the last one
\* created, and on the last one too when the wrapper is over.
C20_ProducersReleased ==
  InGenerator =>
    \A i \in 1..Len(producers) :
      /\ producers[i].closed <= 1
      /\ (producers[i].aclose /\ (i < Len(producers) \/ pc = "done")) => producers[i].closed = 1

C20_Witness ==
  /\ InGenerator /\ pc = "done"
  /\ result = Raise(Raised("GeneratorExit", 0))
  /\ Len(producers) = 2
  /\ producers[1].closed = 1 /\ producers[2].closed = 1
  /\ delivered # <<>>

C20_WitnessCancelled ==
  /\ InGenerator /\ pc = "done"
  /\ CancelledInSleep
  /\ Len(producers) = 2
  /\ producers[1].closed = 1 /\ producers[2].closed = 1

\* C21: once aclose() of a _stream_claude sequence that had delivered fragments
\* has returned to the consumer, aclose() has been called on the producer that
\* yielded them.
C21_CloseReleasesProducer ==
  (op = "_stream_claude" /\ result.kind = "closed" /\ delivered # <<>>) =>
    producers[gen].closed >= 1

\* C25: self._client is None or a handle whose connect() has returned.
C25_HandleAbsentOrConnected ==
  _client # 0 => handles[_client].state = "connected"

\* C27: every handle whose connect() returned and on which disconnect() has not
\* returned is the one self._client refers to.
C27_ConnectedHandleReferenced ==
  \A i \in 1..Len(handles) : handles[i].state = "connected" => _client = i

\* operations that wait between attempts
LoopOps ==
  {"retry_on_transient_error", "retry_async_generator", "_call_claude",
   "_start_conversation", "quick_query"}

\* CancelledError raised by `await asyncio.sleep(delay)` of the current call
SleepCancelled == Raise(Raised("CancelledError", 0))

\* C22: a cancellation delivered during a backoff wait of
\* retry_on_transient_error, retry_async_generator, _call_claude or
\* _start_conversation ends the loop: the call ends with CancelledError (in the
\* generator once its finally block has run) and, every wait having followed
\* one attempt, no attempt was started after the interrupted wait.
C22_CancelledWaitAbortsLoop ==
  (op \in LoopOps \ {"quick_query"}) =>
    /\ after = SleepCancelled =>
         /\ pc \in {"finally", "done"}
         /\ Len(calls) = Len(waits)
         /\ pc = "done" => result = SleepCancelled
    /\ (result = SleepCancelled /\ ~CloseCancelled) =>
         /\ pc = "done"
         /\ Len(calls) = Len(waits)
         /\ waits # <<>>

C22_Witness ==
  /\ op = "_start_conversation" /\ pc = "done"
  /\ result = SleepCancelled
  /\ Len(calls) = 2

C22_WitnessWrapper ==
  op = "retry_on_transient_error" /\ pc = "done" /\ result = SleepCancelled

C22_WitnessGenerator ==
  op = "retry_async_generator" /\ pc = "done" /\ result = SleepCancelled /\ Len(calls) = 2

C22_WitnessBlocking ==
  op = "_call_claude" /\ pc = "done" /\ result = SleepCancelled

\* C23: calculate_delay(n) of a constructed configuration is
\* min(base_delay * exponential_base^n * f, max_delay) with f = 1 without
\* jitter (one value per n, non-decreasing in n) and some f in [0.5, 1.5) with
\* jitter; it is never negative and never above max_delay.
C23_DelayFormula ==
  (op = "calculate_delay" /\ pc = "done") =>
    LET d == result.value
        raw == config.base_delay * Pow(config.exponential_base, attempt)
        cap == config.max_delay * JitterDen
    IN /\ 0 <= d /\ d <= cap
       /\ ~config.jitter =>
            /\ d = Min(raw * JitterDen, cap)
            /\ d <= calculate_delay(config, attempt + 1, JitterDen)
       /\ config.jitter =>
            \E f \in JitterRange : d = Min(raw * f, cap)

\* a jittered delay above the uncapped unjittered one, and one cut by the cap
C23_Witness ==
  /\ op = "calculate_delay" /\ pc = "done"
  /\ config.jitter /\ attempt = 2
  /\ config.base_delay * Pow(config.exponential_base, attempt) * 5 > config.max_delay * JitterDen
  /\ result.value = config.max_delay * JitterDen
  /\ config.max_delay > 0

C23_WitnessUncapped ==
  /\ op = "calculate_delay" /\ pc = "done"
  /\ config.jitter /\ attempt = 1
  /\ result.value = config.base_delay * config.exponential_base * 5
  /\ result.value < config.max_delay * JitterDen
  /\ result.value > 0

\* c is in the range RetryConfig documents
ValidConfig(c) ==
  /\ c.max_attempts >= 1
  /\ c.base_delay >= 0
  /\ c.max_delay >= 0
  /\ c.exponential_base >= 1

\* C24: RetryConfig(...) with an argument out of range raises ValueError from
\* the constructor and leaves no new object; with arguments in range it
\* returns the object; the configuration in force always satisfies
\* max_attempts >= 1, base_delay >= 0, max_delay >= 0, exponential_base >= 1.
C24_ConstructorValidates ==
  /\ ValidConfig(config)
  /\ op = "RetryConfig" =>
       IF ValidConfig(calls[1])
       THEN result = Return(calls[1]) /\ config = calls[1]
       ELSE result = Raise(Raised("ValueError", 0))

C24_Witness ==
  /\ op = "RetryConfig" /\ pc = "done"
  /\ calls[1].max_attempts = 0 /\ calls[1].base_delay = 1
  /\ calls[1].max_delay = 3 /\ calls[1].exponential_base = 2
  /\ result = Raise(Raised("ValueError", 0))

C24_WitnessConstructed ==
  /\ op = "RetryConfig" /\ pc = "done"
  /\ result.kind = "return" /\ config.base_delay = 0 /\ config.exponential_base = 1

\* the methods that exchange messages with the service
MessagingOps ==
  {"_call_claude", "_stream_claude", "_continue_conversation", "_stream_conversation"}

\* C26: no step of _call_claude, _stream_claude, _continue_conversation or
\* _stream_conversation changes self._client or a client object, whatever its
\* outcome; a turn sends its prompt to the client that was open when it began,
\* and after a turn that raised AgentConnectionError or AgentQueryError that
\* client, unchanged, is still the one referenced.
C26_MessagingKeepsHandle ==
  /\ [][op' \in MessagingOps => UNCHANGED session_vars]_vars
  /\ [](InTurn =>
          /\ \A i \in 1..Len(sends) : sends[i] = entry_client
          /\ (IsRaise(result) /\ result.exc.type \in {"AgentConnectionError", "AgentQueryError"}) =>
               /\ _client = entry_client
               /\ _client # 0)

\* a turn has failed with AgentConnectionError on the open session
C26_Witness ==
  /\ InTurn /\ pc = "done"
  /\ IsRaise(result) /\ result.exc.type = "AgentConnectionError"
  /\ _client = 1 /\ handles[1].state = "connected"

C26_WitnessBlocking ==
  op = "_call_claude" /\ pc = "done" /\ IsRaise(result) /\ _client = 1

C26_WitnessStream ==
  op = "_stream_claude" /\ pc = "done" /\ IsRaise(result) /\ _client = 1

\* the last attempt of the current call ended without an exception
LastAttemptSucceeded ==
  /\ calls # <<>>
  /\ IF InGenerator THEN AttemptEnd(Len(calls)) = Stop
     ELSE calls[Len(calls)].kind \in {"return", "stop"}

\* C28: in the five retry loops the loop variable stays in [0, max_attempts),
\* it never decreases and at most attempt + 1 <= max_attempts attempts have been
\* started; a loop that has ended has returned (or completed its sequence)
\* after a successful last attempt, or has raised (after a failed last attempt
\* or a cancelled close of the producer), never both and never neither; the RuntimeError after the loops is never raised and no loop ends
\* normally without a successful attempt.
C28_LoopsEnd ==
  /\ [](op \in LoopOps =>
          /\ attempt \in 0..(config.max_attempts - 1)
          /\ Len(calls) <= attempt + 1
          /\ (pc = "done" /\ result.kind # "closed") =>
               /\ result.kind \in {"return", "stop", "raise"}
               /\ result # Raise(Raised("RuntimeError", 0))
               /\ result.kind \in {"return", "stop"} => LastAttemptSucceeded
               /\ LastAttemptSucceeded => (result.kind \in {"return", "stop"} \/ CloseCancelled))
  /\ [][(op \in LoopOps /\ ~Idle) =>
          /\ attempt' \in {attempt, attempt + 1}
          /\ Len(calls') \in {Len(calls), Len(calls) + 1}
          /\ attempt' = attempt + 1 => (Len(calls') = Len(calls) /\ Len(calls) = attempt + 1)]_vars

\* quick_query has raised AgentConnectionError after its last attempt
C28_Witness ==
  /\ op = "quick_query" /\ pc = "done"
  /\ attempt = config.max_attempts - 1 /\ attempt = 2
  /\ Len(calls) = 3
  /\ IsRaise(result) /\ result.exc.type = "AgentConnectionError"

C28_WitnessSession ==
  /\ op = "_start_conversation" /\ pc = "done"
  /\ attempt = 1 /\ result = Return(None)

C28_WitnessGenerator ==
  /\ InGenerator /\ pc = "done" /\ attempt = 2 /\ IsRaise(result) /\ Len(calls) = 3

\* the exception the i-th attempt of the current utility call ended with
FailureOf(i) == IF InGenerator THEN AttemptEnd(i).exc ELSE calls[i].exc

\* C29: in retry_on_transient_error and retry_async_generator the i-th wait and
\* the i-th retry record belong to the i-th attempt: it failed with a
\* retryable exception, was not the last one allowed, the record carries its
\* number, its exception and the delay, and the wait is calculate_delay(i - 1);
\* attempt i + 1 starts only after wait i, and the last wait has no recorded
\* attempt after it only while it or the next attempt is in progress, or when
\* it was cancelled. A run that ends otherwise after a attempts has made a - 1
\* waits and written a - 1 retry records.
C29_WaitsAndRecordsPaired ==
  (InWrapper \/ InGenerator) =>
    /\ Len(RetryRecords) = Len(waits)
    /\ Len(waits) <= Len(calls)
    /\ calls # <<>> => Len(waits) >= Len(calls) - 1
    /\ \A i \in 1..Len(waits) :
         /\ i < config.max_attempts
         /\ IsRetryableRaise(IF InGenerator THEN AttemptEnd(i) ELSE calls[i])
         /\ RetryRecords[i] = RetryRecord(i - 1, FailureOf(i), waits[i])
         /\ \E f \in Draws(config) : waits[i] = calculate_delay(config, i - 1, f)
    /\ (calls # <<>> /\ Len(waits) = Len(calls)) =>
         \/ pc = "sleep"
         \/ InWrapper /\ pc = "func"
         \/ InGenerator /\ pc \in {"finally", "factory"}
         \/ pc = "done" /\ result = SleepCancelled
    /\ (pc = "done" /\ result # SleepCancelled /\ calls # <<>>) =>
         /\ Len(waits) = Len(calls) - 1
         /\ Len(RetryRecords) = Len(calls) - 1

\* three attempts, two waits, two retry records, then success
C29_Witness ==
  /\ InWrapper /\ pc = "done"
  /\ Len(calls) = 3 /\ Len(waits) = 2 /\ Len(RetryRecords) = 2
  /\ result.kind = "return"

C29_WitnessGenerator ==
  /\ InGenerator /\ pc = "done"
  /\ Len(calls) = 3 /\ Len(waits) = 2 /\ Len(RetryRecords) = 2
  /\ IsRaise(result) /\ result # SleepCancelled

\* the cleanup records of the current call
CleanupRecords == SelectSeq(logs, LAMBDA r : r.msg = "cleanup")

\* the producers of the current call whose aclose() raised one of classes ts
ProducersCloseRaised(ts) == {i \in 1..Len(producers) : producers[i].close_exc \in ts}

\* what leaves the finally block of retry_async_generator when nothing is
\* raised inside it: the loop goes on, the code after the loop runs, or the
\* return or exception that was leaving the try statement continues
OutcomeWithoutCloseFailure ==
  IF after = Continue
  THEN IF attempt + 1 < config.max_attempts
       THEN pc' = "factory" /\ attempt' = attempt + 1 /\ result' = result
       ELSE pc' = "done" /\ result' = Raise(last_exception)
  ELSE pc' = "done" /\ result' = after

\* C30 as stated: every aclose() that raised left a cleanup warning record.
C30_EveryCloseFailureLogged ==
  InGenerator =>
    Len(CleanupRecords) = Cardinality(ProducersCloseRaised(AcloseOutcomes \ {"None"}))

\* C30: in retry_async_generator an Exception raised by aclose() never changes
\* what the wrapper does next: leaving the finally block it goes on to the next
\* attempt, raises the exception it was raising (the cancellation included) or
\* completes exactly as when aclose() returns. One warning record is written
\* for each aclose() that raised (here ValueError), except for a RuntimeError,
\* which is passed over without a record, and for a CancelledError, which no
\* clause catches.
C30_CloseFailureKeepsOutcome ==
  /\ [][(InGenerator /\ pc = "finally" /\ ~CloseCancelled') => OutcomeWithoutCloseFailure]_vars
  /\ [](InGenerator =>
          /\ Len(CleanupRecords) = Cardinality(ProducersCloseRaised({"ValueError"}))
          /\ \A i \in 1..Len(CleanupRecords) :
               /\ CleanupRecords[i].level = "warning"
               /\ CleanupRecords[i].exc \in {producers[j].close_exc : j \in 1..Len(producers)})

\* aclose() raised ValueError on the first producer and RuntimeError on the
\* second; the third attempt completed the sequence
C30_Witness ==
  /\ InGenerator /\ pc = "done"
  /\ Len(producers) = 3
  /\ producers[1].close_exc = "ValueError"
  /\ producers[2].close_exc = "RuntimeError"
  /\ Len(CleanupRecords) = 1
  /\ result = Stop

\* the producer completed and the task was cancelled while closing it
C30_WitnessCloseCancelled ==
  /\ InGenerator /\ pc = "done"
  /\ producers # <<>>
  /\ producers[Len(producers)].end = Stop
  /\ producers[Len(producers)].close_exc = "CancelledError"
  /\ result = Raise(Raised("CancelledError", 0))
  /\ logs = <<>>

C30_WitnessCancelled ==
  /\ InGenerator /\ pc = "done"
  /\ result = SleepCancelled
  /\ producers # <<>>
  /\ producers[Len(producers)].close_exc = "ValueError"

C30_WitnessRaises ==
  /\ InGenerator /\ pc = "done"
  /\ producers # <<>>
  /\ producers[1].close_exc = "RuntimeError"
  /\ result = Raise(Raised("ValueError", 1))
  /\ logs = <<>>

====
